---- MODULE Spec2Model ----
(***************************************************************************)
(* spacecat caption: the caption sidecar I/O, the App's caption editor,    *)
(* batch caption generation, project management, directory loading,       *)
(* thumbnail generation and export, as state machines.                     *)
(*                                                                         *)
(* A path is the sequence of its dot-separated parts: "a.png" is           *)
(* <<"a", "png">>.  A text (a caption, a file's content) is a sequence of  *)
(* tokens; the empty string is << >>.  A directory is a function from the  *)
(* paths of its files to their contents.                                   *)
(*                                                                         *)
(* An IPC call (invoke) that a handler awaits is a record in tasks; the    *)
(* call completes in one step, in which the backend acts and the handler   *)
(* resumes up to its next await.  Calls complete in any order.             *)
(***************************************************************************)
EXTENDS Integers, Sequences, FiniteSets, TLC

VARIABLES
    wd,              \* the working directory on disk: path -> content
    mediaFiles,      \* useFileSystem: the list of MediaFile records
    error,           \* useFileSystem: the last error message, or NoError
    currentFile,     \* App: the current MediaFile, or Null
    caption,         \* App: the text in the caption editor
    captionModified, \* App
    isProcessing,    \* App
    isSaving,        \* App
    timer,           \* the pending auto-save timeout (its closure), or Null
    tasks,           \* the IPC calls in flight, each with its handler's closure
    clicks,          \* number of user actions so far
    lastOp,          \* history: what the last step did
    lastEdit,        \* history: the last modification of the caption (the
                     \* current file and the text), Null once the user acted again
    sourceDirectory,   \* useFileSystem
    workingDirectory,  \* useFileSystem
    isLoading,         \* useFileSystem
    runs,            \* the generateThumbnails calls that have not returned
    archive,         \* the files of the last archive written by an export
    projDisk,        \* the project directories under the application data root
    projects,        \* useProjectManagement: the project list
    projIsLoading,   \* useProjectManagement: isLoading
    projError,       \* useProjectManagement: error
    projTask,        \* useProjectManagement: the IPC call in flight, or Null
    projLast,        \* history: what the last project operation did
    shortcut,        \* App: what the keydown listener of the shortcut effect closes over
    settings,        \* useSettings: the provider selection
    loadingThumbnails, \* App
    thumbLoad,       \* App: the getThumbnail calls of the thumbnail effect in flight
    settingsStore,   \* the settings store: its 'settings' entry, what is saved on disk
    settingsCalls,   \* the updateSetting calls in flight, each at its await
    edits,           \* the IPC calls of the trim and crop editors in flight
    trimOpen,        \* TrimEditor: open
    trimIsProcessing,  \* TrimEditor: isProcessing
    progressPercent, \* TrimEditor
    polling,         \* TrimEditor: the progress interval is set
    trimProgress,    \* the backend's shared progress counter, and who wrote it
    cropOpen,        \* CropEditor: open
    cropIsProcessing,  \* CropEditor: isProcessing
    edLast           \* history: what the last step of an editor did

capVars == <<wd, mediaFiles, error, currentFile, caption, captionModified,
             isProcessing, isSaving, timer, tasks, clicks, lastOp, lastEdit>>

fsVars == <<sourceDirectory, workingDirectory, isLoading, runs, archive>>

projVars == <<projDisk, projects, projIsLoading, projError, projTask, projLast>>

appVars == <<settings, loadingThumbnails, thumbLoad, settingsStore, settingsCalls>>

edVars == <<edits, trimOpen, trimIsProcessing, progressPercent, polling,
            trimProgress, cropOpen, cropIsProcessing, edLast>>

vars == <<capVars, fsVars, projVars, shortcut, appVars, edVars>>

----------------------------------------------------------------------------
(* Bounds *)

MaxClicks == 3
MaxTasks == 3

----------------------------------------------------------------------------
(* Values *)

Null == [null |-> TRUE]
NoError == "none"
NoThumb == << >>
WorkingDir == "spacecat-working"
NoDir == "null"

A_MP4 == <<"a", "mp4">>
A_PNG == <<"a", "png">>
B_PNG == <<"b", "png">>
A_TXT == <<"a", "txt">>
B_TXT == <<"b", "txt">>

ImageExts == {"png"}
VideoExts == {"mp4"}

MediaBytes == <<"media">>
CorruptBytes == <<"corrupt">>
EmptyText == << >>
OldText == <<"old">>
TypedTexts == {EmptyText, <<"t1">>, <<"t2">>}

Last(s) == s[Len(s)]

Range(seq) == {seq[i] : i \in 1..Len(seq)}

\* The order of the characters that occur in the names, for localeCompare.
Rank(part) ==
    CASE part = "a" -> 1
      [] part = "b" -> 2
      [] part = "c" -> 3
      [] part = "d" -> 4
      [] part = "e" -> 5
      [] part = "f" -> 6
      [] part = "g" -> 7
      [] part = "h" -> 8
      [] part = "mp4" -> 9
      [] part = "png" -> 10
      [] part = "txt" -> 11
      [] OTHER -> 12

RECURSIVE NameLess(_, _)
NameLess(n1, n2) ==
    IF n1 = << >> THEN n2 # << >>
    ELSE IF n2 = << >> THEN FALSE
    ELSE IF Rank(Head(n1)) # Rank(Head(n2)) THEN Rank(Head(n1)) < Rank(Head(n2))
    ELSE NameLess(Tail(n1), Tail(n2))

----------------------------------------------------------------------------
(* lib/fs.ts *)

\* (a getCaptionPath that gives every media file the same caption file)
getCaptionPath_oneFile(mediaPath) == <<"caption", "txt">>

\* mediaPath.replace(/\.[^.]+$/, '.txt'): the last dot and what follows it
\* become ".txt"; a path with no dot is returned as it is.
getCaptionPath(mediaPath) ==
    IF Len(mediaPath) >= 2
    THEN SubSeq(mediaPath, 1, Len(mediaPath) - 1) \o <<"txt">>
    ELSE mediaPath

----------------------------------------------------------------------------
(* The backend commands (Rust, behind invoke) *)

\* write_caption_file: creates the file or replaces its whole content.
write_caption_file(dir, path, content) ==
    [p \in (DOMAIN dir) \cup {path} |-> IF p = path THEN content ELSE dir[p]]

\* read_caption_file: the content; an error when the file does not exist.
read_caption_file(dir, path) ==
    IF path \in DOMAIN dir
    THEN [ok |-> TRUE, text |-> dir[path]]
    ELSE [ok |-> FALSE, text |-> EmptyText]

fileTypeOf(path) ==
    IF Last(path) \in VideoExts THEN "video"
    ELSE IF Last(path) \in ImageExts THEN "image"
    ELSE "other"

\* The sidecar the backend looks for beside a media file: <basename>.txt.
sidecarOf(path) == SubSeq(path, 1, Len(path) - 1) \o <<"txt">>

RECURSIVE SetToSeq(_)
SetToSeq(S) ==
    IF S = {} THEN << >>
    ELSE LET x == CHOOSE y \in S : TRUE
         IN  <<x>> \o SetToSeq(S \ {x})

\* list_directory_files: one record per image or video of the directory.
list_directory_files(dir) ==
    LET media == {p \in DOMAIN dir : fileTypeOf(p) \in {"image", "video"}}
        rec(p) == [id |-> p, name |-> p, path |-> p,
                   file_type |-> fileTypeOf(p),
                   has_caption |-> sidecarOf(p) \in DOMAIN dir]
        paths == SetToSeq(media)
    IN  [i \in 1..Len(paths) |-> rec(paths[i])]

----------------------------------------------------------------------------
(* lib/fs.ts, hooks/useFileSystem.ts *)

isImageRecord(file) == file.file_type = "image"

\* (a listing that keeps only the images)
listDirectoryFiles_images(dir) ==
    LET files == SelectSeq(list_directory_files(dir), isImageRecord)
    IN  [i \in 1..Len(files) |->
            [id |-> files[i].id, name |-> files[i].name, path |-> files[i].path,
             file_type |-> files[i].file_type,
             has_caption |-> files[i].has_caption,
             type |-> "image", selected |-> FALSE, thumbnail |-> NoThumb]]

\* listDirectoryFiles: the backend's records with the frontend's properties.
listDirectoryFiles(dir) ==
    LET files == list_directory_files(dir)
    IN  [i \in 1..Len(files) |->
            [id |-> files[i].id, name |-> files[i].name, path |-> files[i].path,
             file_type |-> files[i].file_type,
             has_caption |-> files[i].has_caption,
             type |-> IF files[i].file_type = "image" THEN "image" ELSE "video",
             selected |-> FALSE, thumbnail |-> NoThumb]]

RECURSIVE Insert(_, _)
Insert(f, sorted) ==
    IF sorted = << >> THEN <<f>>
    ELSE IF NameLess(f.name, Head(sorted).name) THEN <<f>> \o sorted
    ELSE <<Head(sorted)>> \o Insert(f, Tail(sorted))

\* [...files].sort((a, b) => a.name.localeCompare(b.name))
RECURSIVE sortedFiles(_)
sortedFiles(files) ==
    IF files = << >> THEN << >>
    ELSE Insert(Head(files), sortedFiles(Tail(files)))

\* setMediaFiles(prev => prev.map(f => f.id === id ? { ...f, has_caption: true } : f))
markCaptioned(files, id) ==
    [i \in 1..Len(files) |->
        IF files[i].id = id THEN [files[i] EXCEPT !.has_caption = TRUE] ELSE files[i]]

\* (a writeCaption that passes the media path itself to writeCaptionFile)
writeCaptionDisk_mediaPath(dir, mediaFile, content) ==
    write_caption_file(dir, mediaFile.path, content)

\* writeCaption, on disk: writeCaptionFile(getCaptionPath(mediaFile.path), content)
writeCaptionDisk(dir, mediaFile, content) ==
    write_caption_file(dir, getCaptionPath(mediaFile.path), content)

\* readCaption: the sidecar's content, '' when reading it fails.
readCaption(dir, mediaFile) ==
    LET r == read_caption_file(dir, getCaptionPath(mediaFile.path))
    IN  IF r.ok THEN r.text ELSE EmptyText

\* updateFileSelection(fileId, selected, thumbnail)
updateFileSelection(files, fileId, selected, thumbnail) ==
    [i \in 1..Len(files) |->
        IF files[i].id = fileId
        THEN [files[i] EXCEPT !.selected = selected,
                              !.thumbnail = IF thumbnail # NoThumb THEN thumbnail
                                            ELSE files[i].thumbnail]
        ELSE files[i]]

----------------------------------------------------------------------------
(* The caption generation backend (generate_caption, generate_captions and *)
(* their Gemini variants)                                                  *)

GenText(path) == <<"gen">> \o path
ErrText(path) == <<"error">> \o path

\* generate_captions: one (path, caption) pair per submitted path, in the
\* order submitted; a path whose request failed carries the error text.
generate_captions(paths, failed) ==
    [i \in 1..Len(paths) |->
        [path |-> paths[i],
         caption |-> IF paths[i] \in failed THEN ErrText(paths[i])
                     ELSE GenText(paths[i])]]

----------------------------------------------------------------------------
(* App.tsx *)

RECURSIVE SelectSeq2(_, _)
SelectSeq2(s, S) ==
    IF s = << >> THEN << >>
    ELSE (IF Head(s) \in S THEN <<Head(s)>> ELSE << >>) \o SelectSeq2(Tail(s), S)

\* mediaFiles.filter(f => f.selected)
selectedFiles(files) == SelectSeq2(files, {files[i] : i \in {j \in 1..Len(files) : files[j].selected}})

Remove(s, k) == SubSeq(s, 1, k - 1) \o SubSeq(s, k + 1, Len(s))

replaceTask(k, t) == [tasks EXCEPT ![k] = t]

\* The auto-save effect, deps [caption, captionModified]: when neither
\* changed the pending timeout stays; otherwise it is cleared, and a new one
\* is set (closing over the rendered currentFile and caption) when there is
\* a current file and the caption is modified.
autoSaveEffect(cur2, cap2, mod2) ==
    IF cap2 = caption /\ mod2 = captionModified THEN timer
    ELSE IF cur2 # Null /\ mod2 THEN [file |-> cur2, caption |-> cap2]
    ELSE Null

\* The keyboard shortcut effect, deps [currentFile, captionModified]: the
\* keydown listener is replaced, and closes over what is rendered, only when
\* the current file or captionModified changed.
shortcutEffect ==
    IF currentFile' = currentFile /\ captionModified' = captionModified
    THEN shortcut
    ELSE [caption |-> caption', files |-> mediaFiles', settings |-> settings']

\* A mediaFiles.find(f => f.path === path) of the handler's closure.
findByPath(files, path) ==
    LET hits == {i \in 1..Len(files) : files[i].path = path}
    IN  IF hits = {} THEN Null
        ELSE files[CHOOSE i \in hits : \A j \in hits : i <= j]

hasId(files, id) == \E i \in 1..Len(files) : files[i].id = id

\* writeCaption(mediaFile, content) when write_caption_file succeeds: the
\* sidecar is written and the file is marked captioned; it returns true.
writeCaptionOk(mediaFile, content) ==
    /\ wd' = writeCaptionDisk(wd, mediaFile, content)
    /\ mediaFiles' = markCaptioned(mediaFiles, mediaFile.id)
    /\ error' = error

\* writeCaption when write_caption_file fails: the error is recorded and it
\* returns false.
writeCaptionFailed ==
    /\ error' = "write_caption_file failed"
    /\ UNCHANGED <<wd, mediaFiles>>

\* (a handleFileSelect that leaves the editor's text when the file has no caption)
selectFile_keepCaption(file, rest, mod2) ==
    /\ currentFile' = file
    /\ captionModified' = mod2
    /\ IF file.has_caption
       THEN tasks' = Append(rest, [kind |-> "selectRead", file |-> file])
       ELSE tasks' = rest
    /\ caption' = caption
    /\ timer' = autoSaveEffect(file, caption', mod2)

\* handleFileSelect from "setCurrentFile(file)" on: the current file is set,
\* and the caption is read when the file is flagged captioned, else cleared.
\* rest is the calls still in flight, mod2 the new captionModified.
selectFile(file, rest, mod2) ==
    /\ currentFile' = file
    /\ captionModified' = mod2
    /\ IF file.has_caption
       THEN /\ tasks' = Append(rest, [kind |-> "selectRead", file |-> file])
            /\ caption' = caption
       ELSE /\ tasks' = rest
            /\ caption' = EmptyText
    /\ timer' = autoSaveEffect(file, caption', mod2)

\* An export is under way: the Export dialog is open and modal, so the
\* sidebar, the editor and its buttons cannot be used (shortcuts can).
exporting ==
    \E k \in 1..Len(tasks) : tasks[k].kind \in {"selectExportDirectory", "exportDirectory"}

\* handleFileSelect(file), to its first await.
HandleFileSelect ==
    \E i \in 1..Len(mediaFiles) :
        LET file == mediaFiles[i] IN
        /\ clicks < MaxClicks
        /\ ~exporting
        /\ Len(tasks) < MaxTasks
        /\ clicks' = clicks + 1
        /\ lastOp' = [op |-> "handleFileSelect", file |-> file, was |-> caption,
                      made |-> IF currentFile # Null /\ captionModified
                               THEN "writing"
                               ELSE IF file.has_caption THEN "reading" ELSE "done"]
        /\ IF currentFile # Null /\ captionModified
           THEN /\ tasks' = Append(tasks, [kind |-> "selectWrite", file |-> file,
                                           cf |-> currentFile, cap |-> caption])
                /\ UNCHANGED <<wd, mediaFiles, error, currentFile, caption,
                               captionModified, timer>>
           ELSE /\ selectFile(file, tasks, captionModified)
                /\ UNCHANGED <<wd, mediaFiles, error>>
        /\ UNCHANGED <<isProcessing, isSaving>>
        /\ lastEdit' = Null
        /\ UNCHANGED <<fsVars, projVars, appVars, edVars>>
        /\ shortcut' = shortcutEffect

\* handleFileSelect resumes after "await writeCaption(currentFile, caption)".
SelectWriteDone ==
    \E k \in 1..Len(tasks), ok \in BOOLEAN :
        LET t == tasks[k] IN
        /\ t.kind = "selectWrite"
        /\ IF ok THEN writeCaptionOk(t.cf, t.cap) ELSE writeCaptionFailed
        /\ selectFile(t.file, Remove(tasks, k), FALSE)
        /\ lastOp' = [op |-> "writeCaption", ok |-> ok, file |-> t.cf,
                      content |-> t.cap, prev |-> readCaption(wd, t.cf),
                      by |-> "handleFileSelect", next |-> t.file, was |-> caption,
                      made |-> IF t.file.has_caption THEN "reading" ELSE "done"]
        /\ UNCHANGED <<isProcessing, isSaving, clicks>>
        /\ UNCHANGED lastEdit
        /\ UNCHANGED <<fsVars, projVars, appVars, edVars>>
        /\ shortcut' = shortcutEffect

\* handleFileSelect resumes after "await readCaption(file)".
SelectReadDone ==
    \E k \in 1..Len(tasks) :
        LET t == tasks[k] IN
        /\ t.kind = "selectRead"
        /\ caption' = readCaption(wd, t.file)
        /\ timer' = autoSaveEffect(currentFile, caption', captionModified)
        /\ tasks' = Remove(tasks, k)
        /\ lastOp' = [op |-> "selected", file |-> t.file, was |-> caption]
        /\ UNCHANGED <<wd, mediaFiles, error, currentFile, captionModified,
                       isProcessing, isSaving, clicks>>
        /\ UNCHANGED lastEdit
        /\ UNCHANGED <<fsVars, projVars, appVars, edVars>>
        /\ shortcut' = shortcutEffect

\* handleCaptionChange(value): the user edits the text area.
HandleCaptionChange ==
    \E value \in TypedTexts :
        /\ clicks < MaxClicks
        /\ ~exporting
        /\ currentFile # Null
        /\ value # caption
        /\ caption' = value
        /\ captionModified' = TRUE
        /\ timer' = autoSaveEffect(currentFile, value, TRUE)
        /\ clicks' = clicks + 1
        /\ lastOp' = [op |-> "handleCaptionChange", file |-> currentFile,
                      content |-> value]
        /\ UNCHANGED <<wd, mediaFiles, error, currentFile, isProcessing,
                       isSaving, tasks>>
        /\ lastEdit' = [file |-> currentFile, text |-> value]
        /\ UNCHANGED <<fsVars, projVars, appVars, edVars>>
        /\ shortcut' = shortcutEffect

\* The auto-save timeout fires: saveCaption() of the closure, to its await,
\* then setCaptionModified(false).
AutoSaveFire ==
    /\ timer # Null
    /\ Len(tasks) < MaxTasks
    /\ isSaving' = TRUE
    /\ tasks' = Append(tasks, [kind |-> "save", file |-> timer.file,
                               cap |-> timer.caption])
    /\ captionModified' = FALSE
    /\ timer' = Null
    /\ lastOp' = [op |-> "autoSave", file |-> timer.file, content |-> timer.caption]
    /\ UNCHANGED <<wd, mediaFiles, error, currentFile, caption, isProcessing, clicks>>
    /\ UNCHANGED lastEdit
    /\ UNCHANGED <<fsVars, projVars, appVars, edVars>>
    /\ shortcut' = shortcutEffect

\* saveCaption resumes after "await writeCaption(currentFile, caption)".
SaveDone ==
    \E k \in 1..Len(tasks), ok \in BOOLEAN :
        LET t == tasks[k] IN
        /\ t.kind = "save"
        /\ IF ok THEN writeCaptionOk(t.file, t.cap) ELSE writeCaptionFailed
        /\ isSaving' = FALSE
        /\ tasks' = Remove(tasks, k)
        /\ lastOp' = [op |-> "writeCaption", ok |-> ok, file |-> t.file,
                      content |-> t.cap, prev |-> readCaption(wd, t.file),
                      by |-> "saveCaption"]
        /\ UNCHANGED <<currentFile, caption, captionModified, isProcessing,
                       timer, clicks>>
        /\ UNCHANGED lastEdit
        /\ UNCHANGED <<fsVars, projVars, appVars, edVars>>
        /\ shortcut' = shortcutEffect

\* The checkbox of a file: updateFileSelection(file.id, checked).
HandleCheckboxChange ==
    \E i \in 1..Len(mediaFiles) :
        /\ clicks < MaxClicks
        /\ ~exporting
        /\ mediaFiles' = updateFileSelection(mediaFiles, mediaFiles[i].id,
                                             ~mediaFiles[i].selected, NoThumb)
        /\ clicks' = clicks + 1
        /\ lastOp' = [op |-> "checkbox", file |-> mediaFiles[i]]
        /\ UNCHANGED <<wd, error, currentFile, caption, captionModified,
                       isProcessing, isSaving, timer, tasks>>
        /\ lastEdit' = Null
        /\ UNCHANGED <<fsVars, projVars, appVars, edVars>>
        /\ shortcut' = shortcutEffect

\* isVideo of handleGenerateCurrentCaption
isVideoFile(file) == file.type = "video" \/ file.file_type = "video"

\* The condition under which handleGenerateCurrentCaption extracts a frame.
needsFrame(s, file) ==
    isVideoFile(file) /\ (~s.useGeminiForVideos \/ s.preferredProvider = "openai")

\* generateCaptionWithPreferredProvider: the provider the request goes to.
preferredProviderFor(s, isVideo) ==
    LET useGemini == IF isVideo /\ s.useGeminiForVideos
                     THEN TRUE
                     ELSE s.preferredProvider = "gemini"
    IN  IF useGemini THEN "gemini" ELSE "openai"

\* The request of captionProcess once the frame extraction is over.
generateRequest(file, s, frame) ==
    [kind |-> "generate", file |-> file, settings |-> s, frame |-> frame,
     provider |-> preferredProviderFor(s, isVideoFile(file))]

\* handleGenerateCurrentCaption (the Generate button), to the first await of
\* captionProcess: the frame extraction of a video, or the request.
HandleGenerateCurrentCaption ==
    /\ clicks < MaxClicks
    /\ Len(tasks) < MaxTasks
    /\ currentFile # Null
    /\ isProcessing' = TRUE
    /\ tasks' = Append(tasks,
                       IF needsFrame(settings, currentFile)
                       THEN [kind |-> "extractFrame", file |-> currentFile,
                             settings |-> settings]
                       ELSE generateRequest(currentFile, settings, "none"))
    /\ clicks' = clicks + 1
    /\ lastOp' = [op |-> "handleGenerateCurrentCaption", file |-> currentFile]
    /\ UNCHANGED <<wd, mediaFiles, error, currentFile, caption, captionModified,
                   isSaving, timer>>
    /\ lastEdit' = Null
    /\ UNCHANGED <<fsVars, projVars, appVars, edVars>>
    /\ shortcut' = shortcutEffect

\* extractVideoFrame answers: with or without a frame (a failure is caught),
\* captionProcess sends the request.
FrameDone ==
    \E k \in 1..Len(tasks), ok \in BOOLEAN :
        LET t == tasks[k] IN
        /\ t.kind = "extractFrame"
        /\ tasks' = replaceTask(k, generateRequest(t.file, t.settings,
                                     IF ok THEN "extracted" ELSE "failed"))
        /\ lastOp' = [op |-> "frame", ok |-> ok, file |-> t.file]
        /\ UNCHANGED <<wd, mediaFiles, error, currentFile, caption, captionModified,
                       isProcessing, isSaving, timer, clicks, lastEdit>>
        /\ UNCHANGED <<fsVars, projVars, appVars, edVars>>
        /\ shortcut' = shortcutEffect

\* (an error handler that leaves isProcessing as it is)
generateSettled_noReset(ok, text) ==
    IF ok
    THEN /\ caption' = text
         /\ captionModified' = TRUE
         /\ isProcessing' = FALSE
    ELSE UNCHANGED <<caption, captionModified, isProcessing>>

\* The success and error handlers of handleGenerateCurrentCaption's
\* toast.promise.
generateSettled(ok, text) ==
    /\ IF ok
       THEN /\ caption' = text
            /\ captionModified' = TRUE
       ELSE UNCHANGED <<caption, captionModified>>
    /\ isProcessing' = FALSE

\* toast.promise of handleGenerateCurrentCaption: success or error.
GenerateDone ==
    \E k \in 1..Len(tasks), ok \in BOOLEAN :
        LET t == tasks[k] IN
        /\ t.kind = "generate"
        /\ generateSettled(ok, GenText(t.file.path))
        /\ timer' = autoSaveEffect(currentFile, caption', captionModified')
        /\ tasks' = Remove(tasks, k)
        /\ lastOp' = [op |-> "generated", ok |-> ok, file |-> t.file,
                      frame |-> t.frame]
        /\ UNCHANGED <<wd, mediaFiles, error, currentFile, isSaving, clicks>>
        /\ lastEdit' = IF ok THEN [file |-> currentFile, text |-> caption'] ELSE lastEdit
        /\ UNCHANGED <<fsVars, projVars, appVars, edVars>>
        /\ shortcut' = shortcutEffect

\* (a handleGenerateCaptions that submits every listed file)
mediaPaths_all(files) == [i \in 1..Len(files) |-> files[i].path]

\* selectedFiles.map(file => file.path)
mediaPaths(files) ==
    LET sel == selectedFiles(files) IN [i \in 1..Len(sel) |-> sel[i].path]

\* handleGenerateCaptions: useGemini = settings.preferredProvider === 'gemini'
batchProviderFor(s) == IF s.preferredProvider = "gemini" THEN "gemini" ELSE "openai"

\* handleGenerateCaptions (the Generate Captions button), to the await of
\* the batch request.
HandleGenerateCaptions ==
    /\ clicks < MaxClicks
    /\ ~exporting
    /\ Len(tasks) < MaxTasks
    /\ ~isProcessing
    /\ selectedFiles(mediaFiles) # << >>
    /\ isProcessing' = TRUE
    /\ tasks' = Append(tasks, [kind |-> "batch", paths |-> mediaPaths(mediaFiles),
                               all |-> mediaFiles, cur |-> currentFile,
                               settings |-> settings,
                               provider |-> batchProviderFor(settings)])
    /\ clicks' = clicks + 1
    /\ lastOp' = [op |-> "handleGenerateCaptions", paths |-> mediaPaths(mediaFiles)]
    /\ UNCHANGED <<wd, mediaFiles, error, currentFile, caption, captionModified,
                   isSaving, timer>>
    /\ lastEdit' = Null
    /\ UNCHANGED <<fsVars, projVars, appVars, edVars>>
    /\ shortcut' = shortcutEffect

\* (a success handler that stops at the first result carrying an error)
RECURSIVE batchWrites_stopAtError(_, _)
batchWrites_stopAtError(results, all) ==
    IF results = << >> \/ Head(results).caption = ErrText(Head(results).path)
    THEN << >>
    ELSE LET r == Head(results)
             file == findByPath(all, r.path)
         IN  (IF file # Null
              THEN <<[kind |-> "batchWrite", file |-> file, cap |-> r.caption]>>
              ELSE << >>) \o batchWrites_stopAtError(Tail(results), all)

\* results.forEach(([path, caption]) => { file = mediaFiles.find(...);
\* if (file) writeCaption(file, caption) }): the writes it starts.
RECURSIVE batchWrites(_, _)
batchWrites(results, all) ==
    IF results = << >> THEN << >>
    ELSE LET r == Head(results)
             file == findByPath(all, r.path)
         IN  (IF file # Null
              THEN <<[kind |-> "batchWrite", file |-> file, cap |-> r.caption]>>
              ELSE << >>) \o batchWrites(Tail(results), all)

\* results.find(([path]) => path === currentFile.path)
findResult(results, path) ==
    LET hits == {i \in 1..Len(results) : results[i].path = path}
    IN  IF hits = {} THEN Null
        ELSE results[CHOOSE i \in hits : \A j \in hits : i <= j]

\* toast.promise of handleGenerateCaptions, success: the batch answered.
BatchDone ==
    \E k \in 1..Len(tasks) :
        LET t == tasks[k]
            sel == selectedFiles(t.all)
        IN
        /\ t.kind = "batch"
        /\ \E failed \in SUBSET {t.paths[i] : i \in 1..Len(t.paths)} :
            LET results == generate_captions(t.paths, failed)
                mine == IF t.cur # Null /\ hasId(sel, t.cur.id)
                        THEN findResult(results, t.cur.path) ELSE Null
            IN
            /\ tasks' = Remove(tasks, k) \o batchWrites(results, t.all)
            /\ IF mine # Null
               THEN /\ caption' = mine.caption
                    /\ captionModified' = TRUE
                    /\ lastEdit' = [file |-> currentFile, text |-> mine.caption]
               ELSE UNCHANGED <<caption, captionModified, lastEdit>>
            /\ lastOp' = [op |-> "batchDone", paths |-> t.paths, results |-> results,
                          failed |-> failed]
        /\ timer' = autoSaveEffect(currentFile, caption', captionModified')
        /\ isProcessing' = FALSE
        /\ UNCHANGED <<wd, mediaFiles, error, currentFile, isSaving, clicks>>
        /\ UNCHANGED <<fsVars, projVars, appVars, edVars>>
        /\ shortcut' = shortcutEffect

\* toast.promise of handleGenerateCaptions, error: the request was rejected.
BatchRejected ==
    \E k \in 1..Len(tasks) :
        /\ tasks[k].kind = "batch"
        /\ isProcessing' = FALSE
        /\ tasks' = Remove(tasks, k)
        /\ lastOp' = [op |-> "batchRejected", paths |-> tasks[k].paths]
        /\ UNCHANGED <<wd, mediaFiles, error, currentFile, caption, captionModified,
                       isSaving, timer, clicks>>
        /\ UNCHANGED lastEdit
        /\ UNCHANGED <<fsVars, projVars, appVars, edVars>>
        /\ shortcut' = shortcutEffect

\* A writeCaption started by the batch's success handler completes.
BatchWriteDone ==
    \E k \in 1..Len(tasks), ok \in BOOLEAN :
        LET t == tasks[k] IN
        /\ t.kind = "batchWrite"
        /\ IF ok THEN writeCaptionOk(t.file, t.cap) ELSE writeCaptionFailed
        /\ tasks' = Remove(tasks, k)
        /\ lastOp' = [op |-> "writeCaption", ok |-> ok, file |-> t.file,
                      content |-> t.cap, prev |-> readCaption(wd, t.file),
                      by |-> "handleGenerateCaptions"]
        /\ UNCHANGED <<currentFile, caption, captionModified, isProcessing,
                       isSaving, timer, clicks>>
        /\ UNCHANGED lastEdit
        /\ UNCHANGED <<fsVars, projVars, appVars, edVars>>
        /\ shortcut' = shortcutEffect

----------------------------------------------------------------------------
(* Removing the current file *)

\* delete_media_file: removes the media file and its caption sidecar.
delete_media_file(dir, path) ==
    [p \in (DOMAIN dir) \ {path, sidecarOf(path)} |-> dir[p]]

\* setMediaFiles(prev => prev.filter(f => f.id !== mediaFile.id))
withoutFile(files, id) == SelectSeq2(files, {files[i] : i \in {j \in 1..Len(files) : files[j].id # id}})

\* mediaFiles.findIndex(f => f.id === file.id), counted from 1; 0 for -1.
findIndex(files, id) ==
    LET hits == {i \in 1..Len(files) : files[i].id = id}
    IN  IF hits = {} THEN 0 ELSE CHOOSE i \in hits : \A j \in hits : i <= j

\* handleRemoveFile(file) (the Delete button of the current file), to the
\* await of removeFile; the closure holds what was rendered at the click.
HandleRemoveFile ==
    /\ clicks < MaxClicks
    /\ Len(tasks) < MaxTasks
    /\ ~exporting
    /\ currentFile # Null
    /\ ~isProcessing
    /\ tasks' = Append(tasks, [kind |-> "remove", file |-> currentFile,
                               cur |-> currentFile, files |-> mediaFiles,
                               cap |-> caption, mod |-> captionModified])
    /\ clicks' = clicks + 1
    /\ lastOp' = [op |-> "handleRemoveFile", file |-> currentFile]
    /\ lastEdit' = Null
    /\ UNCHANGED <<wd, mediaFiles, error, currentFile, caption, captionModified,
                   isProcessing, isSaving, timer>>
    /\ UNCHANGED <<fsVars, projVars, appVars, edVars>>
    /\ shortcut' = shortcutEffect

\* deleteMediaFile answers.  On failure removeFile records the error and
\* the handler throws.  On success the file leaves the list and, it being
\* the closure's current file, the handler goes to the next file of the
\* closure's list through the closure's handleFileSelect, or clears the
\* current file when it was the only one.
RemoveDone ==
    \E k \in 1..Len(tasks), ok \in BOOLEAN :
        LET t == tasks[k]
            rest == Remove(tasks, k)
            currentIndex == findIndex(t.files, t.file.id)
            nextIndex == IF currentIndex < Len(t.files) THEN currentIndex + 1
                         ELSE currentIndex - 1
        IN
        /\ t.kind = "remove"
        /\ lastOp' = [op |-> "removed", ok |-> ok, file |-> t.file]
        /\ IF ~ok
           THEN /\ error' = "delete_media_file failed"
                /\ tasks' = rest
                /\ UNCHANGED <<wd, mediaFiles, currentFile, caption,
                               captionModified, timer>>
           ELSE /\ wd' = delete_media_file(wd, t.file.path)
                /\ mediaFiles' = withoutFile(mediaFiles, t.file.id)
                /\ error' = error
                /\ IF t.cur # Null /\ t.cur.id = t.file.id
                   THEN IF Len(t.files) > 1 /\ nextIndex >= 1
                        THEN IF t.cur # Null /\ t.mod
                             THEN /\ tasks' = Append(rest,
                                        [kind |-> "selectWrite", file |-> t.files[nextIndex],
                                         cf |-> t.cur, cap |-> t.cap])
                                  /\ UNCHANGED <<currentFile, caption,
                                                 captionModified, timer>>
                             ELSE selectFile(t.files[nextIndex], rest, captionModified)
                        ELSE /\ currentFile' = Null
                             /\ caption' = EmptyText
                             /\ timer' = autoSaveEffect(Null, EmptyText, captionModified)
                             /\ tasks' = rest
                             /\ UNCHANGED captionModified
                   ELSE /\ tasks' = rest
                        /\ UNCHANGED <<currentFile, caption, captionModified, timer>>
        /\ UNCHANGED <<isProcessing, isSaving, clicks, lastEdit>>
        /\ UNCHANGED <<fsVars, projVars, appVars, edVars>>
        /\ shortcut' = shortcutEffect

----------------------------------------------------------------------------
(* Export *)

\* export_directory: a full copy of the directory as it is when the command
\* runs, as one archive or as a folder.
export_directory(dir, asZip) == [zip |-> asZip, files |-> [p \in DOMAIN dir |-> dir[p]]]

\* (an export that copies the media files only)
exportDirectory_mediaOnly(dir, asZip) ==
    LET media == {p \in DOMAIN dir : fileTypeOf(p) \in {"image", "video"}}
    IN  [zip |-> asZip, files |-> [p \in media |-> dir[p]]]

\* exportDirectory(sourceDir, destinationDir, asZip)
exportDirectory(dir, asZip) == export_directory(dir, asZip)

\* catch: setError(errorMessage), throw; finally: setIsLoading(false)
exportFailed(k, message) ==
    /\ error' = message
    /\ isLoading' = FALSE
    /\ tasks' = Remove(tasks, k)
    /\ lastOp' = [op |-> "exportFailed"]
    /\ UNCHANGED archive

\* ExportDialog.handleExport -> exportWorkingDirectory(asZip), to the await
\* of the destination dialog.  atStart records the working directory as it
\* is when the export is started.
HandleExport ==
    \E asZip \in BOOLEAN :
        /\ clicks < MaxClicks
        /\ Len(tasks) < MaxTasks
        /\ workingDirectory # NoDir
        /\ ~exporting
        /\ isLoading' = TRUE
        /\ error' = NoError
        /\ tasks' = Append(tasks, [kind |-> "selectExportDirectory", asZip |-> asZip,
                                   dir |-> workingDirectory, atStart |-> wd])
        /\ clicks' = clicks + 1
        /\ lastOp' = [op |-> "handleExport", asZip |-> asZip]
        /\ lastEdit' = Null
        /\ UNCHANGED <<wd, mediaFiles, currentFile, caption, captionModified,
                       isProcessing, isSaving, timer>>
        /\ UNCHANGED <<sourceDirectory, workingDirectory, runs, archive>>
        /\ UNCHANGED <<projVars, shortcut, appVars, edVars>>

\* The destination dialog answers: a directory, or none (the command fails).
ExportDirectoryChosen ==
    \E k \in 1..Len(tasks), ok \in BOOLEAN :
        LET t == tasks[k] IN
        /\ t.kind = "selectExportDirectory"
        /\ IF ok
           THEN /\ tasks' = replaceTask(k, [kind |-> "exportDirectory", asZip |-> t.asZip,
                                            dir |-> t.dir, atStart |-> t.atStart])
                /\ lastOp' = [op |-> "exportDirectoryChosen"]
                /\ UNCHANGED <<error, isLoading, archive>>
           ELSE exportFailed(k, "No directory selected")
        /\ UNCHANGED <<wd, mediaFiles, currentFile, caption, captionModified,
                       isProcessing, isSaving, timer, clicks, lastEdit>>
        /\ UNCHANGED <<sourceDirectory, workingDirectory, runs>>
        /\ UNCHANGED <<projVars, shortcut, appVars, edVars>>

\* export_directory answers.
ExportDone ==
    \E k \in 1..Len(tasks), ok \in BOOLEAN :
        LET t == tasks[k] IN
        /\ t.kind = "exportDirectory"
        /\ IF ok
           THEN /\ archive' = exportDirectory(wd, t.asZip)
                /\ isLoading' = FALSE
                /\ tasks' = Remove(tasks, k)
                /\ lastOp' = [op |-> "exported", asZip |-> t.asZip, atStart |-> t.atStart]
                /\ UNCHANGED error
           ELSE exportFailed(k, "export_directory failed")
        /\ UNCHANGED <<wd, mediaFiles, currentFile, caption, captionModified,
                       isProcessing, isSaving, timer, clicks, lastEdit>>
        /\ UNCHANGED <<sourceDirectory, workingDirectory, runs>>
        /\ UNCHANGED <<projVars, shortcut, appVars, edVars>>

----------------------------------------------------------------------------
(* hooks/useProjectManagement.ts, and the project commands of the backend *)

MaxProjects == 3

ProjectPaths == 1..MaxProjects

\* list_project_directories: one record per directory under the data root.
list_project_directories(disk) ==
    LET paths == SetToSeq(disk)
    IN  [i \in 1..Len(paths) |-> [id |-> paths[i], path |-> paths[i], size_bytes |-> 0]]

\* delete_project_directory: removes the directory and everything under it.
delete_project_directory(disk, path) == disk \ {path}

formatFileSize(bytes) == IF bytes = 0 THEN "0 B" ELSE "B"

listProjectDirectories(disk) ==
    LET list == list_project_directories(disk)
    IN  [i \in 1..Len(list) |->
            [id |-> list[i].id, path |-> list[i].path, size_bytes |-> list[i].size_bytes,
             formatted_size |-> formatFileSize(list[i].size_bytes)]]

hasProject(list, path) == \E i \in 1..Len(list) : list[i].path = path

\* (a fetchProjects that appends the listing to the list it holds)
fetchProjectsSettled_append(ok) ==
    /\ IF ok
       THEN /\ projects' = projects \o listProjectDirectories(projDisk)
            /\ projError' = projError
       ELSE /\ projError' = "list_project_directories failed"
            /\ projects' = projects
    /\ projIsLoading' = FALSE

\* fetchProjects from the answer of listProjectDirectories on: the list is
\* replaced, or the error is recorded and the list stays; finally isLoading
\* is false.
fetchProjectsSettled(ok) ==
    /\ IF ok
       THEN /\ projects' = listProjectDirectories(projDisk)
            /\ projError' = projError
       ELSE /\ projError' = "list_project_directories failed"
            /\ projects' = projects
    /\ projIsLoading' = FALSE

\* fetchProjects (the Refresh button, enabled while not loading), to its await.
FetchProjects ==
    /\ ~projIsLoading
    /\ projTask = Null
    /\ projIsLoading' = TRUE
    /\ projError' = NoError
    /\ projTask' = [kind |-> "list", by |-> "fetchProjects"]
    /\ projLast' = [op |-> "fetchProjects"]
    /\ UNCHANGED <<projDisk, projects>>
    /\ UNCHANGED <<capVars, fsVars, shortcut, appVars, edVars>>

\* listProjectDirectories answers: fetchProjects runs to its end, and so does
\* the deleteProject that awaited it ("return true", then its finally).
FetchDone ==
    \E ok \in BOOLEAN :
        /\ projTask # Null
        /\ projTask.kind = "list"
        /\ fetchProjectsSettled(ok)
        /\ projTask' = Null
        /\ projLast' = IF projTask.by = "deleteProject"
                       THEN [op |-> "deleteProject", path |-> projTask.path,
                             returned |-> TRUE, before |-> projTask.before]
                       ELSE [op |-> "fetched", ok |-> ok]
        /\ UNCHANGED projDisk
        /\ UNCHANGED <<capVars, fsVars, shortcut, appVars, edVars>>

\* deleteProject(path) from the context menu of a row of the project table
\* (shown while not loading and without error), to its first await.
DeleteProject ==
    \E i \in 1..Len(projects) :
        /\ ~projIsLoading
        /\ projError = NoError
        /\ projTask = Null
        /\ projIsLoading' = TRUE
        /\ projError' = NoError
        /\ projTask' = [kind |-> "delete", path |-> projects[i].path, before |-> projects]
        /\ projLast' = [op |-> "deleteProjectStart", path |-> projects[i].path]
        /\ UNCHANGED <<projDisk, projects>>
        /\ UNCHANGED <<capVars, fsVars, shortcut, appVars, edVars>>

\* deleteProjectDirectory answers: on success deleteProject goes on to
\* "await fetchProjects()"; on failure its catch records the error and it
\* returns false, and its finally sets isLoading false.
DeleteDone ==
    \E ok \in BOOLEAN :
        /\ projTask # Null
        /\ projTask.kind = "delete"
        /\ IF ok
           THEN /\ projDisk' = delete_project_directory(projDisk, projTask.path)
                /\ projIsLoading' = TRUE
                /\ projError' = NoError
                /\ projTask' = [kind |-> "list", by |-> "deleteProject",
                                path |-> projTask.path, before |-> projTask.before]
                /\ projLast' = [op |-> "deleted", path |-> projTask.path]
           ELSE /\ projDisk' = projDisk
                /\ projIsLoading' = FALSE
                /\ projError' = "delete_project_directory failed"
                /\ projTask' = Null
                /\ projLast' = [op |-> "deleteProject", path |-> projTask.path,
                                returned |-> FALSE, before |-> projTask.before]
        /\ UNCHANGED projects
        /\ UNCHANGED <<capVars, fsVars, shortcut, appVars, edVars>>

\* No project operation: the Settings dialog is not in use.
projectsIdle ==
    /\ projDisk = {}
    /\ projects = << >>
    /\ projIsLoading = FALSE
    /\ projError = NoError
    /\ projTask = Null
    /\ projLast = [op |-> "init"]

EmptyDir == [p \in {} |-> MediaBytes]

\* No directory is loaded.
fsIdle ==
    /\ wd = EmptyDir
    /\ mediaFiles = << >>
    /\ error = NoError
    /\ sourceDirectory = NoDir
    /\ workingDirectory = NoDir
    /\ isLoading = FALSE
    /\ runs = << >>
    /\ archive = Null

\* The caption editor is untouched.
editorIdle ==
    /\ currentFile = Null
    /\ caption = EmptyText
    /\ captionModified = FALSE
    /\ isProcessing = FALSE
    /\ isSaving = FALSE
    /\ timer = Null
    /\ tasks = << >>
    /\ clicks = 0
    /\ lastOp = [op |-> "init"]
    /\ lastEdit = Null

\* DEFAULT_SETTINGS: the provider selection
DefaultSettings == [preferredProvider |-> "openai", useGeminiForVideos |-> TRUE]

\* lib/settings.ts after useSettings' mount effect: the store holds the
\* default record under 'settings', saved to settings.json; no update is in
\* flight and none has failed.
settingsIdle ==
    /\ settingsStore = [stored |-> DefaultSettings, saved |-> DefaultSettings,
                        failed |-> FALSE]
    /\ settingsCalls = << >>

\* The App as mounted: the listener of the first render, the default
\* settings, no thumbnail being loaded by the App's effect.
appIdle ==
    /\ shortcut = [caption |-> EmptyText, files |-> << >>, settings |-> DefaultSettings]
    /\ settings = DefaultSettings
    /\ settingsIdle
    /\ loadingThumbnails = FALSE
    /\ thumbLoad = {}

\* The trim and crop editors are closed.
editorsIdle ==
    /\ edits = << >>
    /\ trimOpen = FALSE
    /\ trimIsProcessing = FALSE
    /\ progressPercent = 0
    /\ polling = FALSE
    /\ trimProgress = [value |-> 0, by |-> 0]
    /\ cropOpen = FALSE
    /\ cropIsProcessing = FALSE
    /\ edLast = [op |-> "init"]

\* The hook is mounted: isLoading starts true and the mount effect has called
\* fetchProjects.
InitProjects ==
    /\ projDisk \in SUBSET ProjectPaths
    /\ projects = << >>
    /\ projIsLoading = TRUE
    /\ projError = NoError
    /\ projTask = [kind |-> "list", by |-> "fetchProjects"]
    /\ projLast = [op |-> "init"]
    /\ fsIdle
    /\ editorIdle
    /\ appIdle
    /\ editorsIdle

NextProjects ==
    \/ FetchProjects
    \/ FetchDone
    \/ DeleteProject
    \/ DeleteDone

SpecProjects == InitProjects /\ [][NextProjects]_vars

----------------------------------------------------------------------------
(* hooks/useFileSystem.ts: thumbnails in the background *)

BatchSize == 5

\* get_media_thumbnail: a data URL of the preview; an error when the file is
\* missing or cannot be decoded.
Thumb(path) == <<"thumb">> \o path

get_media_thumbnail(dir, path) ==
    IF path \in DOMAIN dir /\ dir[path] # CorruptBytes
    THEN [ok |-> TRUE, thumbnail |-> Thumb(path)]
    ELSE [ok |-> FALSE, thumbnail |-> NoThumb]

isMedia(file) ==
    \/ file.type = "video" \/ file.file_type = "video"
    \/ file.type = "image" \/ file.file_type = "image"

\* mediaFiles.slice(i, i + batchSize), i counted from 1
slice(files, i, n) ==
    SubSeq(files, i, IF i + n - 1 < Len(files) THEN i + n - 1 ELSE Len(files))

idsOf(files) == {files[i].id : i \in 1..Len(files)}

\* generateThumbnails(files), to its first await: nothing to do for an empty
\* list, else the requests of the first batch are issued.  dir is the
\* directory the files were listed from.
generateThumbnails(files, dir) ==
    LET media == SelectSeq(files, isMedia)
        first == slice(media, 1, BatchSize)
    IN  IF Len(media) = 0
        THEN [dir |-> dir, files |-> media, next |-> 1, out |-> {}, asked |-> {},
              returned |-> TRUE]
        ELSE [dir |-> dir, files |-> media, next |-> 1 + BatchSize,
              out |-> idsOf(first), asked |-> idsOf(first), returned |-> FALSE]

\* (a loop whose requests are not wrapped in try/catch: the first failure
\* rejects Promise.all and ends the call)
settled_rethrow(run, id, ok) ==
    IF ~ok \/ run.returned
    THEN [run EXCEPT !.out = run.out \ {id}, !.returned = TRUE]
    ELSE IF run.out \ {id} # {}
    THEN [run EXCEPT !.out = run.out \ {id}]
    ELSE IF run.next <= Len(run.files)
    THEN LET batch == slice(run.files, run.next, BatchSize)
         IN  [run EXCEPT !.out = idsOf(batch), !.asked = run.asked \cup idsOf(batch),
                         !.next = run.next + BatchSize]
    ELSE [run EXCEPT !.out = {}, !.returned = TRUE]

\* (a loop that does not await Promise.all: the next batch is issued as soon
\* as one request settles)
settled_noAwait(run, id, ok) ==
    IF run.next <= Len(run.files)
    THEN LET batch == slice(run.files, run.next, BatchSize)
         IN  [run EXCEPT !.out = (run.out \ {id}) \cup idsOf(batch),
                         !.asked = run.asked \cup idsOf(batch),
                         !.next = run.next + BatchSize]
    ELSE [run EXCEPT !.out = run.out \ {id}, !.returned = (run.out \ {id} = {})]

\* One request of the current batch settled (ok or not: the catch swallows
\* the failure).  When it was the last of its batch, Promise.all resolves
\* and the loop issues the next batch, or the call returns.
settled(run, id, ok) ==
    IF run.out \ {id} # {}
    THEN [run EXCEPT !.out = run.out \ {id}]
    ELSE IF run.next <= Len(run.files)
    THEN LET batch == slice(run.files, run.next, BatchSize)
         IN  [run EXCEPT !.out = idsOf(batch), !.asked = run.asked \cup idsOf(batch),
                         !.next = run.next + BatchSize]
    ELSE [run EXCEPT !.out = {}, !.returned = TRUE]

\* setMediaFiles(prev => prev.map(f => f.id === file.id ? { ...f, thumbnail } : f))
setThumbnail(files, id, thumbnail) ==
    [i \in 1..Len(files) |->
        IF files[i].id = id THEN [files[i] EXCEPT !.thumbnail = thumbnail] ELSE files[i]]

\* A getMediaThumbnail request of a generateThumbnails call settles.
ThumbSettle ==
    \E r \in 1..Len(runs) :
        \E id \in runs[r].out :
            LET res == get_media_thumbnail(runs[r].dir, id) IN
            /\ mediaFiles' = IF res.ok THEN setThumbnail(mediaFiles, id, res.thumbnail)
                             ELSE mediaFiles
            /\ runs' = [runs EXCEPT ![r] = settled(runs[r], id, res.ok)]
            /\ lastOp' = [op |-> "thumbnail"]
            /\ UNCHANGED <<wd, error, currentFile, caption, captionModified,
                           isProcessing, isSaving, timer, tasks, clicks, lastEdit>>
            /\ UNCHANGED <<sourceDirectory, workingDirectory, isLoading, archive>>
            /\ UNCHANGED <<projVars, shortcut, appVars, edVars>>

----------------------------------------------------------------------------
(* hooks/useFileSystem.ts: loading a directory *)

MaxLoads == 2

Names == <<"a", "b", "c", "d", "e", "f", "g", "h">>

NOTES_MD == <<"notes", "md">>

\* The directory with the first n names as .png files, those of corrupt
\* unreadable, and the files of extra beside them.
dirOf(n, corrupt, extra) ==
    LET media == {<<Names[i], "png">> : i \in 1..n} IN
    [p \in media \cup DOMAIN extra |->
        IF p \in media THEN (IF p \in corrupt THEN CorruptBytes ELSE MediaBytes)
        ELSE extra[p]]

\* The directories the user can pick in the native dialog: one with more
\* media files than a batch (a video and an unreadable image among them), a
\* sidecar and another file; one without media.
SourceDirs ==
    [name \in {"big", "empty"} |->
        IF name = "big"
        THEN dirOf(BatchSize, {B_PNG},
                   [p \in {A_MP4, A_TXT, NOTES_MD} |->
                       IF p = A_MP4 THEN MediaBytes ELSE OldText])
        ELSE dirOf(0, {}, [p \in {NOTES_MD} |-> OldText])]

\* The working copies of earlier sessions, under the application data root.
ProjectDirs ==
    [name \in {"project"} |-> dirOf(2, {}, [p \in {B_TXT} |-> OldText])]

\* duplicate_directory: a full recursive duplicate of the source.
duplicate_directory(source) == [p \in DOMAIN source |-> source[p]]

\* catch: setError(errorMessage), throw; finally: setIsLoading(false)
loadFailed(k, by, message) ==
    /\ error' = message
    /\ isLoading' = FALSE
    /\ tasks' = Remove(tasks, k)
    /\ lastOp' = [op |-> "loadFailed", by |-> by]

\* selectSourceDirectory (the Select Directory button, enabled while not
\* loading), to the await of the directory dialog.
SelectSourceDirectory ==
    /\ ~isLoading
    /\ clicks < MaxLoads
    /\ isLoading' = TRUE
    /\ error' = NoError
    /\ tasks' = Append(tasks, [kind |-> "selectDirectory"])
    /\ clicks' = clicks + 1
    /\ lastOp' = [op |-> "selectSourceDirectory"]
    /\ UNCHANGED <<wd, mediaFiles, currentFile, caption, captionModified,
                   isProcessing, isSaving, timer, lastEdit>>
    /\ UNCHANGED <<sourceDirectory, workingDirectory, runs, archive>>
    /\ UNCHANGED <<projVars, shortcut, appVars, edVars>>

\* The dialog answers: a directory, or none (the command fails).
SelectDirectoryDone ==
    \E k \in 1..Len(tasks), choice \in DOMAIN SourceDirs \cup {"cancel"} :
        /\ tasks[k].kind = "selectDirectory"
        /\ IF choice = "cancel"
           THEN /\ loadFailed(k, "selectSourceDirectory", "No directory selected")
                /\ UNCHANGED sourceDirectory
           ELSE /\ sourceDirectory' = choice
                /\ tasks' = replaceTask(k, [kind |-> "duplicate", src |-> choice])
                /\ lastOp' = [op |-> "selectedDirectory", src |-> choice]
                /\ UNCHANGED <<error, isLoading>>
        /\ UNCHANGED <<wd, mediaFiles, currentFile, caption, captionModified,
                       isProcessing, isSaving, timer, clicks, lastEdit>>
        /\ UNCHANGED <<workingDirectory, runs, archive>>
        /\ UNCHANGED <<projVars, shortcut, appVars, edVars>>

\* duplicate_directory answers: the working copy exists and becomes the
\* working directory.
DuplicateDone ==
    \E k \in 1..Len(tasks), ok \in BOOLEAN :
        LET t == tasks[k] IN
        /\ t.kind = "duplicate"
        /\ IF ok
           THEN /\ wd' = duplicate_directory(SourceDirs[t.src])
                /\ workingDirectory' = WorkingDir
                /\ tasks' = replaceTask(k, [kind |-> "register",
                                            by |-> "selectSourceDirectory",
                                            src |-> t.src, dir |-> wd'])
                /\ lastOp' = [op |-> "duplicated", src |-> t.src]
                /\ UNCHANGED <<error, isLoading>>
           ELSE /\ loadFailed(k, "selectSourceDirectory", "duplicate_directory failed")
                /\ UNCHANGED <<wd, workingDirectory>>
        /\ UNCHANGED <<mediaFiles, currentFile, caption, captionModified,
                       isProcessing, isSaving, timer, clicks, lastEdit>>
        /\ UNCHANGED <<sourceDirectory, runs, archive>>
        /\ UNCHANGED <<projVars, shortcut, appVars, edVars>>

\* register_working_directory answers.
RegisterDone ==
    \E k \in 1..Len(tasks), ok \in BOOLEAN :
        LET t == tasks[k] IN
        /\ t.kind = "register"
        /\ IF ok
           THEN /\ tasks' = replaceTask(k, [kind |-> "list", by |-> t.by,
                                            src |-> t.src, dir |-> t.dir])
                /\ lastOp' = [op |-> "registered", by |-> t.by]
                /\ UNCHANGED <<error, isLoading>>
           ELSE loadFailed(k, t.by, "register_working_directory failed")
        /\ UNCHANGED <<wd, mediaFiles, currentFile, caption, captionModified,
                       isProcessing, isSaving, timer, clicks, lastEdit>>
        /\ UNCHANGED <<sourceDirectory, workingDirectory, runs, archive>>
        /\ UNCHANGED <<projVars, shortcut, appVars, edVars>>

\* listDirectoryFiles answers: the sorted list is shown, the thumbnails are
\* started in the background, and the load returns (finally: not loading).
ListDone ==
    \E k \in 1..Len(tasks), ok \in BOOLEAN :
        LET t == tasks[k] IN
        /\ t.kind = "list"
        /\ IF ok
           THEN /\ mediaFiles' = sortedFiles(listDirectoryFiles(t.dir))
                /\ runs' = Append(runs, generateThumbnails(mediaFiles', t.dir))
                /\ isLoading' = FALSE
                /\ tasks' = Remove(tasks, k)
                /\ lastOp' = [op |-> "loaded", by |-> t.by, src |-> t.src, dir |-> t.dir]
                /\ UNCHANGED error
           ELSE /\ loadFailed(k, t.by, "list_directory_files failed")
                /\ UNCHANGED <<mediaFiles, runs>>
        /\ UNCHANGED <<wd, currentFile, caption, captionModified,
                       isProcessing, isSaving, timer, clicks, lastEdit>>
        /\ UNCHANGED <<sourceDirectory, workingDirectory, archive>>
        /\ UNCHANGED <<projVars, shortcut, appVars, edVars>>

\* loadExistingProject(projectPath) (a recent project, offered while there
\* is no working directory), to the await of the registration.
LoadExistingProject ==
    \E project \in DOMAIN ProjectDirs :
        /\ workingDirectory = NoDir
        /\ clicks < MaxLoads
        /\ isLoading' = TRUE
        /\ error' = NoError
        /\ sourceDirectory' = project
        /\ workingDirectory' = project
        /\ wd' = ProjectDirs[project]
        /\ tasks' = Append(tasks, [kind |-> "register", by |-> "loadExistingProject",
                                   src |-> project, dir |-> ProjectDirs[project]])
        /\ clicks' = clicks + 1
        /\ lastOp' = [op |-> "loadExistingProject", src |-> project]
        /\ UNCHANGED <<mediaFiles, currentFile, caption, captionModified,
                       isProcessing, isSaving, timer, lastEdit>>
        /\ UNCHANGED <<runs, archive>>
        /\ UNCHANGED <<projVars, shortcut, appVars, edVars>>

InitLoad ==
    /\ fsIdle
    /\ editorIdle
    /\ projectsIdle
    /\ appIdle
    /\ editorsIdle

NextLoad ==
    \/ SelectSourceDirectory
    \/ SelectDirectoryDone
    \/ DuplicateDone
    \/ RegisterDone
    \/ ListDone
    \/ LoadExistingProject
    \/ ThumbSettle

SpecLoad == InitLoad /\ [][NextLoad]_vars

----------------------------------------------------------------------------
(* One generateThumbnails call on a listed directory *)

MaxFiles == 6

\* The directories of up to MaxFiles images, any of them unreadable.
ThumbDirs ==
    {dirOf(n, corrupt, EmptyDir) :
        n \in 0..MaxFiles, corrupt \in SUBSET {<<Names[i], "png">> : i \in 1..MaxFiles}}

InitThumbs ==
    /\ wd \in ThumbDirs
    /\ mediaFiles = sortedFiles(listDirectoryFiles(wd))
    /\ runs = <<generateThumbnails(mediaFiles, wd)>>
    /\ error = NoError
    /\ sourceDirectory = "photos"
    /\ workingDirectory = WorkingDir
    /\ isLoading = FALSE
    /\ archive = Null
    /\ editorIdle
    /\ projectsIdle
    /\ appIdle
    /\ editorsIdle

NextThumbs == ThumbSettle

\* The backend answers every request: it resolves or rejects.
SpecThumbs == InitThumbs /\ [][NextThumbs]_vars /\ WF_vars(ThumbSettle)

----------------------------------------------------------------------------
(* The caption editor: a working directory is loaded and listed. *)

WorkingDirs ==
    {[p \in {A_MP4, A_PNG, B_PNG} \cup caps |->
        IF p \in {A_MP4, A_PNG, B_PNG} THEN MediaBytes ELSE OldText] :
     caps \in SUBSET {A_TXT, B_TXT}}

Init ==
    /\ wd \in WorkingDirs
    /\ mediaFiles = sortedFiles(listDirectoryFiles(wd))
    /\ error = NoError
    /\ currentFile = Null
    /\ caption = EmptyText
    /\ captionModified = FALSE
    /\ isProcessing = FALSE
    /\ isSaving = FALSE
    /\ timer = Null
    /\ tasks = << >>
    /\ clicks = 0
    /\ lastOp = [op |-> "init"]
    /\ lastEdit = Null
    /\ sourceDirectory = "photos"
    /\ workingDirectory = WorkingDir
    /\ isLoading = FALSE
    /\ runs = << >>
    /\ archive = Null
    /\ projectsIdle
    /\ appIdle
    /\ editorsIdle

Next ==
    \/ HandleFileSelect
    \/ SelectWriteDone
    \/ SelectReadDone
    \/ HandleCaptionChange
    \/ AutoSaveFire
    \/ SaveDone
    \/ HandleCheckboxChange
    \/ HandleGenerateCurrentCaption
    \/ FrameDone
    \/ GenerateDone
    \/ HandleGenerateCaptions
    \/ BatchDone
    \/ BatchRejected
    \/ BatchWriteDone

Spec == Init /\ [][Next]_vars

\* The editor with the Delete button and the Export dialog.
NextExport ==
    \/ HandleFileSelect
    \/ SelectWriteDone
    \/ SelectReadDone
    \/ HandleCaptionChange
    \/ AutoSaveFire
    \/ SaveDone
    \/ HandleRemoveFile
    \/ RemoveDone
    \/ HandleExport
    \/ ExportDirectoryChosen
    \/ ExportDone

SpecExport == Init /\ [][NextExport]_vars

----------------------------------------------------------------------------
(* App.tsx: the thumbnail-loading effect and handleFileUpdate *)

ThumbSlice == 15

hasNoThumbnail(file) == isMedia(file) /\ file.thumbnail = NoThumb

\* mediaFiles.filter(media without thumbnail).slice(0, 15): the files of the
\* rendered list the effect asks a thumbnail for, as rendered.
filesToProcess(files) == Range(slice(SelectSeq(files, hasNoThumbnail), 1, ThumbSlice))

\* updateFileSelection(file.id, file.selected || false, thumbnail): file is
\* the record the handler closed over.
applyThumbnail(files, file, thumbnail) ==
    updateFileSelection(files, file.id, file.selected, thumbnail)

\* The effect as run after a render with the list files while no load is
\* under way: it asks for the thumbnails of filesToProcess, if any.
thumbnailEffect(files) ==
    /\ thumbLoad' = filesToProcess(files)
    /\ loadingThumbnails' = (filesToProcess(files) # {})

\* One getThumbnail of the effect answers (null when the command failed).
\* When it was the last of its Promise.all, loadingThumbnails becomes false
\* and the effect runs again on the list then rendered.  The answers are
\* counted modulo 2 (asked), so that an answer that changes nothing else is
\* still a step.
AppThumbSettle ==
    \E file \in thumbLoad, ok \in BOOLEAN :
        /\ loadingThumbnails
        /\ mediaFiles' = IF ok THEN applyThumbnail(mediaFiles, file, Thumb(file.path))
                         ELSE mediaFiles
        /\ IF thumbLoad = {file}
           THEN thumbnailEffect(mediaFiles')
           ELSE /\ thumbLoad' = thumbLoad \ {file}
                /\ loadingThumbnails' = TRUE
        /\ lastOp' = [op |-> "appThumbnail",
                      asked |-> IF lastOp.op = "appThumbnail" THEN 1 - lastOp.asked ELSE 0]
        /\ UNCHANGED <<wd, error, currentFile, caption, captionModified,
                       isProcessing, isSaving, timer, tasks, clicks, lastEdit>>
        /\ UNCHANGED <<fsVars, projVars, settings, settingsStore, settingsCalls, edVars>>
        /\ shortcut' = shortcutEffect

\* handleFileUpdate(oldFile, newPath), to the await of getThumbnail:
\* oldFile, being the current file of the closure, is set current again, its
\* selected flag is written to the list, and a new thumbnail is asked for.
handleFileUpdate(oldFile) ==
    /\ currentFile' = oldFile
    /\ mediaFiles' = updateFileSelection(mediaFiles, oldFile.id, oldFile.selected, NoThumb)
    /\ tasks' = Append(tasks, [kind |-> "fileUpdate", file |-> oldFile])
    /\ shortcut' = [caption |-> caption, files |-> mediaFiles', settings |-> settings]

\* An editor of the caption editor saved the current file: onSave ->
\* handleFileEditorSave -> handleFileUpdate(currentFile, newPath).
HandleFileUpdate ==
    /\ clicks < MaxClicks
    /\ Len(tasks) < MaxTasks
    /\ ~exporting
    /\ currentFile # Null
    /\ handleFileUpdate(currentFile)
    /\ clicks' = clicks + 1
    /\ lastOp' = [op |-> "handleFileUpdate"]
    /\ lastEdit' = Null
    /\ UNCHANGED <<wd, error, caption, captionModified, isProcessing, isSaving, timer>>
    /\ UNCHANGED <<fsVars, projVars, appVars, edVars>>

\* handleFileUpdate resumes after "await getThumbnail(updatedFile)".
FileUpdateThumbDone ==
    \E k \in 1..Len(tasks), ok \in BOOLEAN :
        LET t == tasks[k] IN
        /\ t.kind = "fileUpdate"
        /\ mediaFiles' = IF ok THEN applyThumbnail(mediaFiles, t.file, Thumb(t.file.path))
                         ELSE mediaFiles
        /\ tasks' = Remove(tasks, k)
        /\ lastOp' = [op |-> "fileUpdateThumbnail"]
        /\ UNCHANGED <<wd, error, currentFile, caption, captionModified,
                       isProcessing, isSaving, timer, clicks, lastEdit>>
        /\ UNCHANGED <<fsVars, projVars, appVars, edVars>>
        /\ shortcut' = shortcutEffect

\* A directory was loaded: the list is shown, generateThumbnails runs in the
\* background and the App's effect has asked for the thumbnails as well.
ListDirs ==
    {[p \in {A_PNG, B_PNG} \cup caps |->
        IF p \in {A_PNG, B_PNG} THEN MediaBytes ELSE OldText] :
     caps \in {{B_TXT}}}

InitList ==
    /\ wd \in ListDirs
    /\ mediaFiles = sortedFiles(listDirectoryFiles(wd))
    /\ runs = <<generateThumbnails(mediaFiles, wd)>>
    /\ error = NoError
    /\ sourceDirectory = "photos"
    /\ workingDirectory = WorkingDir
    /\ isLoading = FALSE
    /\ archive = Null
    /\ editorIdle
    /\ projectsIdle
    /\ editorsIdle
    /\ shortcut = [caption |-> EmptyText, files |-> << >>, settings |-> DefaultSettings]
    /\ settings = DefaultSettings
    /\ settingsIdle
    /\ thumbLoad = filesToProcess(mediaFiles)
    /\ loadingThumbnails = TRUE

NextList ==
    \/ ThumbSettle
    \/ AppThumbSettle
    \/ HandleCheckboxChange
    \/ HandleFileSelect
    \/ SelectWriteDone
    \/ SelectReadDone
    \/ HandleCaptionChange
    \/ AutoSaveFire
    \/ SaveDone
    \/ HandleFileUpdate
    \/ FileUpdateThumbDone

SpecList == InitList /\ [][NextList]_vars

\* A directory was loaded and the user does nothing: generateThumbnails and
\* the App's effect both ask for thumbnails, and every request is answered.
NextAppThumbs == ThumbSettle \/ AppThumbSettle

MaxListed == 3

\* The directories of up to MaxListed images, any of them unreadable.
ListedDirs ==
    {dirOf(n, corrupt, EmptyDir) :
        n \in 0..MaxListed, corrupt \in SUBSET {<<Names[i], "png">> : i \in 1..MaxListed}}

InitAppThumbs ==
    /\ wd \in ListedDirs
    /\ mediaFiles = sortedFiles(listDirectoryFiles(wd))
    /\ runs = <<generateThumbnails(mediaFiles, wd)>>
    /\ error = NoError
    /\ sourceDirectory = "photos"
    /\ workingDirectory = WorkingDir
    /\ isLoading = FALSE
    /\ archive = Null
    /\ editorIdle
    /\ projectsIdle
    /\ editorsIdle
    /\ shortcut = [caption |-> EmptyText, files |-> << >>, settings |-> DefaultSettings]
    /\ settings = DefaultSettings
    /\ settingsIdle
    /\ thumbLoad = filesToProcess(mediaFiles)
    /\ loadingThumbnails = (thumbLoad # {})

SpecAppThumbs ==
    InitAppThumbs /\ [][NextAppThumbs]_vars
        /\ WF_vars(ThumbSettle) /\ WF_vars(AppThumbSettle)

----------------------------------------------------------------------------
(* components/media-editor: TrimEditor and CropEditor, and the trim and    *)
(* crop commands of the backend                                            *)

MaxEdits == 2

ProgressHalf == 50
ProgressDone == 100
ProgressFailed == -1

\* reset_trim_progress: the shared counter is 0 again.
reset_trim_progress == [value |-> 0, by |-> 0]

\* trim_video n, while it runs, reports how far it is; when it ends it
\* leaves 100, or -1 when the media tool failed.
trim_video_progress(n) == [value |-> ProgressHalf, by |-> n]

trim_video_end(n, ok) ==
    [value |-> IF ok THEN ProgressDone ELSE ProgressFailed, by |-> n]

\* The trims running in the backend, and the one started last.
trimsRunning == {edits[k].n : k \in {j \in 1..Len(edits) : edits[j].kind = "trim"}}

currentTrim ==
    IF trimsRunning = {} THEN 0
    ELSE CHOOSE n \in trimsRunning : \A m \in trimsRunning : m <= n

\* The effect of the TrimEditor on [open]: closing resets its state; and the
\* polling effect on [isProcessing] clears its interval.
trimClosed ==
    /\ trimOpen' = FALSE
    /\ trimIsProcessing' = FALSE
    /\ progressPercent' = 0
    /\ polling' = FALSE

\* The trim button of the caption editor (videos only).
OpenTrim ==
    /\ currentFile # Null
    /\ currentFile.type = "video"
    /\ ~trimOpen
    /\ ~cropOpen
    /\ trimOpen' = TRUE
    /\ edLast' = [op |-> "openTrim"]
    /\ UNCHANGED <<edits, trimIsProcessing, progressPercent, polling, trimProgress,
                   cropOpen, cropIsProcessing>>
    /\ UNCHANGED <<capVars, fsVars, projVars, shortcut, appVars>>

\* Cancel, Escape or a click outside the dialog: setOpen(false).
CloseTrim ==
    /\ trimOpen
    /\ trimClosed
    /\ edLast' = [op |-> "closeTrim"]
    /\ UNCHANGED <<edits, trimProgress, cropOpen, cropIsProcessing>>
    /\ UNCHANGED <<capVars, fsVars, projVars, shortcut, appVars>>

\* handleTrim (the Save button, shown while not processing), to the await
\* of reset_trim_progress.
HandleTrim ==
    /\ trimOpen
    /\ ~trimIsProcessing
    /\ clicks < MaxEdits
    /\ currentFile # Null
    /\ edits' = Append(edits, [kind |-> "reset", n |-> clicks + 1, file |-> currentFile])
    /\ clicks' = clicks + 1
    /\ edLast' = [op |-> "handleTrim", n |-> clicks + 1]
    /\ UNCHANGED <<trimOpen, trimIsProcessing, progressPercent, polling, trimProgress,
                   cropOpen, cropIsProcessing>>
    /\ UNCHANGED <<wd, mediaFiles, error, currentFile, caption, captionModified,
                   isProcessing, isSaving, timer, tasks, lastOp, lastEdit>>
    /\ UNCHANGED <<fsVars, projVars, shortcut, appVars>>

\* (a catch that invokes trim_video once more)
trimCatch_retry(k) ==
    /\ edits' = [edits EXCEPT ![k] = [kind |-> "trim", n |-> edits[k].n,
                                      file |-> edits[k].file]]
    /\ progressPercent' = 0
    /\ trimIsProcessing' = FALSE
    /\ polling' = FALSE
    /\ edLast' = [op |-> "trimFailed", command |-> "trim_video", n |-> edits[k].n,
                  toast |-> "Failed to trim video", running |-> Len(edits),
                  saves |-> Len(tasks)]

\* handleTrim's catch: the failure is shown, the progress is 0 and the
\* editor is not processing; the polling effect clears its interval.
trimCatch(k) ==
    /\ edits' = Remove(edits, k)
    /\ progressPercent' = 0
    /\ trimIsProcessing' = FALSE
    /\ polling' = FALSE
    /\ edLast' = [op |-> "trimFailed", command |-> "trim_video", n |-> edits[k].n,
                  toast |-> "Failed to trim video", running |-> Len(edits),
                  saves |-> Len(tasks)]

\* reset_trim_progress answers: handleTrim shows progress 0 and invokes
\* trim_video; the polling effect sets its interval when isProcessing
\* became true.
ResetDone ==
    \E k \in 1..Len(edits), ok \in BOOLEAN :
        LET t == edits[k] IN
        /\ t.kind = "reset"
        /\ IF ok
           THEN /\ trimProgress' = reset_trim_progress
                /\ trimIsProcessing' = TRUE
                /\ progressPercent' = 0
                /\ polling' = (polling \/ ~trimIsProcessing)
                /\ edits' = [edits EXCEPT ![k] = [kind |-> "trim", n |-> t.n,
                                                  file |-> t.file]]
                /\ edLast' = [op |-> "trimInvoked", n |-> t.n,
                              counter |-> trimProgress'.value]
           ELSE /\ trimCatch(k)
                /\ UNCHANGED trimProgress
        /\ UNCHANGED <<trimOpen, cropOpen, cropIsProcessing>>
        /\ UNCHANGED <<capVars, fsVars, projVars, shortcut, appVars>>

\* A running trim_video reports its progress to the shared counter.
TrimAdvance ==
    \E k \in 1..Len(edits) :
        /\ edits[k].kind = "trim"
        /\ trimProgress # trim_video_progress(edits[k].n)
        /\ trimProgress' = trim_video_progress(edits[k].n)
        /\ edLast' = [op |-> "progress", n |-> edits[k].n]
        /\ UNCHANGED <<edits, trimOpen, trimIsProcessing, progressPercent, polling,
                       cropOpen, cropIsProcessing>>
        /\ UNCHANGED <<capVars, fsVars, projVars, shortcut, appVars>>

\* A running trim_video ends: it leaves its final value in the counter and
\* its answer is on the way to handleTrim.
TrimEnd ==
    \E k \in 1..Len(edits), ok \in BOOLEAN :
        LET t == edits[k] IN
        /\ t.kind = "trim"
        /\ trimProgress' = trim_video_end(t.n, ok)
        /\ edits' = [edits EXCEPT ![k] = [kind |-> "trimmed", n |-> t.n,
                                          file |-> t.file, ok |-> ok]]
        /\ edLast' = [op |-> "trimEnded", n |-> t.n]
        /\ UNCHANGED <<trimOpen, trimIsProcessing, progressPercent, polling,
                       cropOpen, cropIsProcessing>>
        /\ UNCHANGED <<capVars, fsVars, projVars, shortcut, appVars>>

\* handleTrim resumes after "await invoke('trim_video')".  On success it
\* calls onSave and closes the dialog; on failure its catch runs.
TrimDone ==
    \E k \in 1..Len(edits) :
        LET t == edits[k] IN
        /\ t.kind = "trimmed"
        /\ IF t.ok
           THEN /\ handleFileUpdate(t.file)
                /\ edits' = Remove(edits, k)
                /\ IF trimOpen THEN trimClosed
                   ELSE UNCHANGED <<trimOpen, trimIsProcessing, progressPercent, polling>>
                /\ edLast' = [op |-> "trimSaved", n |-> t.n]
           ELSE /\ trimCatch(k)
                /\ UNCHANGED <<trimOpen, currentFile, mediaFiles, tasks, shortcut>>
        /\ UNCHANGED <<trimProgress, cropOpen, cropIsProcessing>>
        /\ UNCHANGED <<wd, error, caption, captionModified, isProcessing, isSaving,
                       timer, clicks, lastOp, lastEdit>>
        /\ UNCHANGED <<fsVars, projVars, appVars>>

\* A tick of the progress interval: get_trim_progress is read and shown.
\* -1 ends the processing with a message; 100 clears the interval.
PollProgress ==
    /\ polling
    /\ trimIsProcessing
    /\ IF trimProgress.value = ProgressFailed
       THEN /\ trimIsProcessing' = FALSE
            /\ progressPercent' = 0
            /\ polling' = FALSE
       ELSE /\ progressPercent' = trimProgress.value
            /\ polling' = (trimProgress.value # ProgressDone)
            /\ UNCHANGED trimIsProcessing
    /\ edLast' = [op |-> "poll", value |-> trimProgress.value, by |-> trimProgress.by,
                  during |-> currentTrim]
    /\ UNCHANGED <<edits, trimOpen, trimProgress, cropOpen, cropIsProcessing>>
    /\ UNCHANGED <<capVars, fsVars, projVars, shortcut, appVars>>

\* The crop button of the caption editor.
OpenCrop ==
    /\ currentFile # Null
    /\ ~cropOpen
    /\ ~trimOpen
    /\ cropOpen' = TRUE
    /\ edLast' = [op |-> "openCrop"]
    /\ UNCHANGED <<edits, trimOpen, trimIsProcessing, progressPercent, polling,
                   trimProgress, cropIsProcessing>>
    /\ UNCHANGED <<capVars, fsVars, projVars, shortcut, appVars>>

\* Cancel or closing the dialog: the effect on [open] ends the processing.
CloseCrop ==
    /\ cropOpen
    /\ cropOpen' = FALSE
    /\ cropIsProcessing' = FALSE
    /\ edLast' = [op |-> "closeCrop"]
    /\ UNCHANGED <<edits, trimOpen, trimIsProcessing, progressPercent, polling,
                   trimProgress>>
    /\ UNCHANGED <<capVars, fsVars, projVars, shortcut, appVars>>

\* The command CropEditor.handleSave invokes for a file.
cropCommand(file) == IF file.type = "image" THEN "save_cropped_image" ELSE "crop_video"

\* handleSave (the Save button, enabled while not processing), to the await
\* of the crop command; without a valid selection it reports and returns.
HandleSave ==
    \E valid \in BOOLEAN :
        /\ cropOpen
        /\ ~cropIsProcessing
        /\ clicks < MaxEdits
        /\ currentFile # Null
        /\ IF valid
           THEN /\ cropIsProcessing' = TRUE
                /\ edits' = Append(edits, [kind |-> cropCommand(currentFile),
                                           n |-> clicks + 1, file |-> currentFile])
                /\ edLast' = [op |-> "handleSave", n |-> clicks + 1]
           ELSE /\ cropIsProcessing' = FALSE
                /\ edits' = edits
                /\ edLast' = [op |-> "invalidCrop", n |-> clicks + 1]
        /\ clicks' = clicks + 1
        /\ UNCHANGED <<trimOpen, trimIsProcessing, progressPercent, polling,
                       trimProgress, cropOpen>>
        /\ UNCHANGED <<wd, mediaFiles, error, currentFile, caption, captionModified,
                       isProcessing, isSaving, timer, tasks, lastOp, lastEdit>>
        /\ UNCHANGED <<fsVars, projVars, shortcut, appVars>>

\* (a catch that leaves the editor processing)
cropCatch_keepProcessing(k) ==
    /\ edits' = Remove(edits, k)
    /\ cropIsProcessing' = TRUE
    /\ edLast' = [op |-> "cropFailed", command |-> edits[k].kind, n |-> edits[k].n,
                  toast |-> "Failed to crop", running |-> Len(edits),
                  saves |-> Len(tasks)]

\* handleSave's catch and finally: the failure is shown and the editor is
\* not processing.
cropCatch(k) ==
    /\ edits' = Remove(edits, k)
    /\ cropIsProcessing' = FALSE
    /\ edLast' = [op |-> "cropFailed", command |-> edits[k].kind, n |-> edits[k].n,
                  toast |-> "Failed to crop", running |-> Len(edits),
                  saves |-> Len(tasks)]

\* save_cropped_image or crop_video answers.
CropDone ==
    \E k \in 1..Len(edits), ok \in BOOLEAN :
        LET t == edits[k] IN
        /\ t.kind \in {"save_cropped_image", "crop_video"}
        /\ IF ok
           THEN /\ handleFileUpdate(t.file)
                /\ edits' = Remove(edits, k)
                /\ cropOpen' = FALSE
                /\ cropIsProcessing' = FALSE
                /\ edLast' = [op |-> "cropSaved", n |-> t.n]
           ELSE /\ cropCatch(k)
                /\ UNCHANGED <<cropOpen, currentFile, mediaFiles, tasks, shortcut>>
        /\ UNCHANGED <<trimOpen, trimIsProcessing, progressPercent, polling, trimProgress>>
        /\ UNCHANGED <<wd, error, caption, captionModified, isProcessing, isSaving,
                       timer, clicks, lastOp, lastEdit>>
        /\ UNCHANGED <<fsVars, projVars, appVars>>

\* A file of the loaded directory is current and its caption is shown.
InitEditors ==
    /\ wd = [p \in {A_MP4, A_PNG, A_TXT} |-> IF p = A_TXT THEN OldText ELSE MediaBytes]
    /\ mediaFiles = sortedFiles(listDirectoryFiles(wd))
    /\ currentFile \in Range(mediaFiles)
    /\ caption = readCaption(wd, currentFile)
    /\ error = NoError
    /\ captionModified = FALSE
    /\ isProcessing = FALSE
    /\ isSaving = FALSE
    /\ timer = Null
    /\ tasks = << >>
    /\ clicks = 0
    /\ lastOp = [op |-> "init"]
    /\ lastEdit = Null
    /\ sourceDirectory = "photos"
    /\ workingDirectory = WorkingDir
    /\ isLoading = FALSE
    /\ runs = << >>
    /\ archive = Null
    /\ projectsIdle
    /\ shortcut = [caption |-> EmptyText, files |-> mediaFiles, settings |-> DefaultSettings]
    /\ settings = DefaultSettings
    /\ settingsIdle
    /\ loadingThumbnails = FALSE
    /\ thumbLoad = {}
    /\ editorsIdle

NextEditors ==
    \/ OpenTrim
    \/ CloseTrim
    \/ HandleTrim
    \/ ResetDone
    \/ TrimAdvance
    \/ TrimEnd
    \/ TrimDone
    \/ PollProgress
    \/ OpenCrop
    \/ CloseCrop
    \/ HandleSave
    \/ CropDone
    \/ FileUpdateThumbDone

SpecEditors == InitEditors /\ [][NextEditors]_vars

----------------------------------------------------------------------------
(* Navigation: the Previous / Next buttons and the Shift+Arrow shortcuts *)

\* newIndex of handleNavigate, counted from 1 (currentIndex is 0 for -1).
newIndex(files, cur, direction) ==
    LET currentIndex == findIndex(files, cur.id) IN
    IF direction = "prev"
    THEN IF currentIndex > 1 THEN currentIndex - 1 ELSE Len(files)
    ELSE IF currentIndex < Len(files) /\ currentIndex >= 1 THEN currentIndex + 1
         ELSE 1

\* handleNavigate(direction), to its first await.  A button calls the
\* handleNavigate of the current render; a Shift+Arrow key calls the one the
\* keydown listener closed over, with that render's caption and mediaFiles
\* (currentFile and captionModified are the effect's dependencies).
HandleNavigate ==
    \E direction \in {"prev", "next"}, byKey \in BOOLEAN :
        LET cap == IF byKey THEN shortcut.caption ELSE caption
            files == IF byKey THEN shortcut.files ELSE mediaFiles
            newFile == files[newIndex(files, currentFile, direction)]
        IN
        /\ clicks < MaxClicks
        /\ Len(tasks) < MaxTasks
        /\ currentFile # Null
        /\ Len(files) # 0
        /\ clicks' = clicks + 1
        /\ lastOp' = [op |-> "handleNavigate", file |-> newFile, was |-> caption,
                      byKey |-> byKey, direction |-> direction,
                      made |-> IF captionModified THEN "writing"
                               ELSE IF newFile.has_caption THEN "reading" ELSE "done"]
        /\ IF captionModified
           THEN /\ tasks' = Append(tasks, [kind |-> "selectWrite", file |-> newFile,
                                           cf |-> currentFile, cap |-> cap])
                /\ UNCHANGED <<wd, mediaFiles, error, currentFile, caption,
                               captionModified, timer>>
           ELSE /\ selectFile(newFile, tasks, captionModified)
                /\ UNCHANGED <<wd, mediaFiles, error>>
        /\ UNCHANGED <<isProcessing, isSaving>>
        /\ lastEdit' = Null
        /\ UNCHANGED <<fsVars, projVars, appVars, edVars>>
        /\ shortcut' = shortcutEffect

NextNavigate ==
    \/ HandleFileSelect
    \/ HandleNavigate
    \/ SelectWriteDone
    \/ SelectReadDone
    \/ HandleCaptionChange
    \/ AutoSaveFire
    \/ SaveDone

\* A file is current and its caption is shown.
SpecNavigate == InitEditors /\ [][NextNavigate]_vars

\* Navigation while the sidebar's directory button loads another directory.
NextNavigateReload ==
    \/ HandleNavigate
    \/ SelectReadDone
    \/ SelectSourceDirectory
    \/ SelectDirectoryDone
    \/ DuplicateDone
    \/ RegisterDone
    \/ ListDone
    \/ ThumbSettle

SpecNavigateReload == InitEditors /\ [][NextNavigateReload]_vars

----------------------------------------------------------------------------
(* Another source directory is selected while a file is current *)

\* The sidebar of a loaded directory: its button calls selectSourceDirectory
\* again while the caption editor shows the current file.
NextReload ==
    \/ SelectSourceDirectory
    \/ SelectDirectoryDone
    \/ DuplicateDone
    \/ RegisterDone
    \/ ListDone
    \/ ThumbSettle

SpecReload == InitEditors /\ [][NextReload]_vars

----------------------------------------------------------------------------
(* Caption generation under the settings of the Settings dialog *)

\* updateSingleSetting(key, value), to the first await of updateSetting:
\* the in-memory settings are updated at once.  The call keeps its value
\* under its key.
updateSingleSetting(key, value) ==
    /\ settings' = [settings EXCEPT ![key] = value]
    /\ settingsCalls' = Append(settingsCalls, [key |-> key,
                                               value |-> [k \in {key} |-> value],
                                               phase |-> "get", copy |-> settings'])

\* SettingsDialog: updateSingleSetting('preferredProvider', value) and
\* updateSingleSetting('useGeminiForVideos', checked).
UpdateSingleSetting ==
    /\ \/ \E value \in {"openai", "gemini"} :
            /\ value # settings.preferredProvider
            /\ updateSingleSetting("preferredProvider", value)
       \/ updateSingleSetting("useGeminiForVideos", ~settings.useGeminiForVideos)
    /\ clicks < MaxClicks
    /\ clicks' = clicks + 1
    /\ lastOp' = [op |-> "updateSingleSetting"]
    /\ UNCHANGED <<loadingThumbnails, thumbLoad, settingsStore>>
    /\ UNCHANGED <<wd, mediaFiles, error, currentFile, caption, captionModified,
                   isProcessing, isSaving, timer, tasks, lastEdit>>
    /\ UNCHANGED <<fsVars, projVars, edVars>>
    /\ shortcut' = shortcutEffect

\* The frame of the steps of updateSetting.
settingsFrame ==
    /\ UNCHANGED <<settings, loadingThumbnails, thumbLoad>>
    /\ UNCHANGED <<capVars, fsVars, projVars, shortcut, edVars>>

\* updateSetting resumes after "await loadSettings()": it sets the key in
\* the record it got, a copy of the store's entry, and calls saveSettings.
SettingsLoadDone ==
    \E k \in 1..Len(settingsCalls) :
        /\ settingsCalls[k].phase = "get"
        /\ settingsCalls' = [settingsCalls EXCEPT
                                ![k].phase = "set",
                                ![k].copy = [settingsStore.stored EXCEPT
                                                ![settingsCalls[k].key] =
                                                    settingsCalls[k].value[settingsCalls[k].key]]]
        /\ settingsStore' = settingsStore
        /\ settingsFrame

\* saveSettings resumes after "await settingsStore.set('settings', settings)".
SettingsSetDone ==
    \E k \in 1..Len(settingsCalls) :
        /\ settingsCalls[k].phase = "set"
        /\ settingsStore' = [settingsStore EXCEPT !.stored = settingsCalls[k].copy]
        /\ settingsCalls' = [settingsCalls EXCEPT ![k].phase = "save"]
        /\ settingsFrame

\* "await settingsStore.save()" answers: the store is written to
\* settings.json and updateSingleSetting returns true, or the save fails and
\* updateSingleSetting reports it and returns false.
SettingsSaveDone ==
    \E k \in 1..Len(settingsCalls), ok \in BOOLEAN :
        /\ settingsCalls[k].phase = "save"
        /\ settingsStore' = IF ok THEN [settingsStore EXCEPT !.saved = settingsStore.stored]
                            ELSE [settingsStore EXCEPT !.failed = TRUE]
        /\ settingsCalls' = Remove(settingsCalls, k)
        /\ settingsFrame

NextSettings ==
    \/ UpdateSingleSetting
    \/ SettingsLoadDone
    \/ SettingsSetDone
    \/ SettingsSaveDone

SpecSettings == InitEditors /\ [][NextSettings]_vars

NextGenerate ==
    \/ UpdateSingleSetting
    \/ SettingsLoadDone
    \/ SettingsSetDone
    \/ SettingsSaveDone
    \/ HandleCheckboxChange
    \/ HandleGenerateCurrentCaption
    \/ FrameDone
    \/ GenerateDone
    \/ HandleGenerateCaptions
    \/ BatchDone
    \/ BatchRejected
    \/ BatchWriteDone

\* Every request is answered: the frame extraction settles, and the caption
\* request succeeds or fails (a timeout is a failure).
SpecGenerate ==
    /\ InitEditors
    /\ [][NextGenerate]_vars
    /\ WF_vars(FrameDone)
    /\ WF_vars(GenerateDone)
    /\ WF_vars(BatchDone \/ BatchRejected)

----------------------------------------------------------------------------
(* Caption sidecars *)

\* C1: after a successful writeCaption(f, c), whatever was written to f's
\* sidecar before, readCaption(f) returns exactly c: the write replaced the
\* whole sidecar.
C1_WriteThenRead ==
    (lastOp.op = "writeCaption" /\ lastOp.ok)
        => readCaption(wd, lastOp.file) = lastOp.content

\* A second write to a sidecar that held another, non-empty text.
C1_Witness ==
    /\ lastOp.op = "writeCaption"
    /\ lastOp.ok
    /\ lastOp.prev \notin {EmptyText, OldText, lastOp.content}
    /\ lastOp.content # EmptyText

noSidecar(file) == getCaptionPath(file.path) \notin DOMAIN wd

\* C2: a media file whose sidecar does not exist reads as the empty string,
\* is listed with has_caption = false, and a handleFileSelect of it that has
\* run to its end leaves the empty string in the editor.
C2_NoSidecar ==
    /\ \A f \in Range(mediaFiles) : noSidecar(f) => readCaption(wd, f) = EmptyText
    /\ lastOp.op = "init" =>
          \A f \in Range(mediaFiles) : noSidecar(f) => ~f.has_caption
    /\ (lastOp.op = "handleFileSelect" /\ lastOp.made = "done" /\ noSidecar(lastOp.file))
          => caption = EmptyText
    /\ (lastOp.op = "writeCaption" /\ lastOp.by = "handleFileSelect"
            /\ lastOp.made = "done" /\ noSidecar(lastOp.next))
          => caption = EmptyText
    /\ (lastOp.op = "selected" /\ noSidecar(lastOp.file)) => caption = EmptyText

\* A file without sidecar was made current while the editor held a text.
C2_Witness ==
    /\ lastOp.op = "handleFileSelect"
    /\ lastOp.made = "done"
    /\ noSidecar(lastOp.file)
    /\ ~lastOp.file.has_caption
    /\ lastOp.was # EmptyText
    /\ currentFile = lastOp.file
    /\ caption = EmptyText

----------------------------------------------------------------------------
(* Batch caption generation *)

selectedPaths == {f.path : f \in {g \in Range(mediaFiles) : g.selected}}

\* C3: handleGenerateCaptions submits exactly the paths of the N selected
\* files, as one request, and the answer of a batch holds exactly one
\* (path, caption) pair per submitted path, failed files included.
C3_BatchResults ==
    /\ lastOp.op = "handleGenerateCaptions" =>
          LET t == tasks[Len(tasks)] IN
          /\ t.kind = "batch"
          /\ t.paths = lastOp.paths
          /\ Range(t.paths) = selectedPaths
          /\ Len(t.paths) = Cardinality(selectedPaths)
          /\ Len(t.paths) >= 1
    /\ lastOp.op = "batchDone" =>
          /\ Len(lastOp.results) = Len(lastOp.paths)
          /\ \A i \in 1..Len(lastOp.paths) : lastOp.results[i].path = lastOp.paths[i]

\* A batch of two or more files answered, one of them failed, one not.
C3_Witness ==
    /\ lastOp.op = "batchDone"
    /\ Len(lastOp.paths) >= 2
    /\ lastOp.failed # {}
    /\ lastOp.failed # Range(lastOp.paths)
    /\ Len(lastOp.results) = Len(lastOp.paths)

\* C4: when a batch answers, a writeCaption is started for every file whose
\* caption was generated, whatever failed for the other files, and
\* isProcessing is false again; each of these writes, when it succeeds,
\* leaves its caption in the sidecar of its own file.
C4_BatchIsolation ==
    /\ lastOp.op = "batchDone" =>
          /\ ~isProcessing
          /\ \A i \in 1..Len(lastOp.results) :
                lastOp.results[i].path \notin lastOp.failed =>
                    \E k \in 1..Len(tasks) :
                        /\ tasks[k].kind = "batchWrite"
                        /\ tasks[k].file.path = lastOp.results[i].path
                        /\ tasks[k].cap = GenText(lastOp.results[i].path)
    /\ lastOp.op = "batchRejected" => ~isProcessing
    /\ (lastOp.op = "writeCaption" /\ lastOp.by = "handleGenerateCaptions" /\ lastOp.ok)
          => /\ getCaptionPath(lastOp.file.path) \in DOMAIN wd
             /\ wd[getCaptionPath(lastOp.file.path)] = lastOp.content

\* A generated caption reached its sidecar after the write of another file
\* of the same batch had failed.
C4_Witness ==
    /\ lastOp.op = "writeCaption"
    /\ lastOp.by = "handleGenerateCaptions"
    /\ lastOp.ok
    /\ lastOp.content = GenText(lastOp.file.path)
    /\ error # NoError
    /\ wd[getCaptionPath(lastOp.file.path)] = lastOp.content
    /\ ~isProcessing

----------------------------------------------------------------------------
(* Project management *)

\* C5 (amended): when deleteProject(p) has returned true and its re-fetch
\* of the list succeeded, the list is the listing of the data root and does
\* not contain p; when it returned true and the re-fetch failed, the error
\* is recorded and the list is as it was; when the deletion failed it
\* returned false, the error is recorded, the list is as it was and p is
\* still on disk if it was; in every case isLoading is false.
C5_DeleteProject ==
    projLast.op = "deleteProject" =>
        /\ ~projIsLoading
        /\ projTask = Null
        /\ (projLast.returned /\ projError = NoError) =>
              /\ ~hasProject(projects, projLast.path)
              /\ projects = listProjectDirectories(projDisk)
        /\ (projLast.returned /\ projError # NoError) => projects = projLast.before
        /\ projLast.returned => projLast.path \notin projDisk
        /\ ~projLast.returned =>
              /\ projError # NoError
              /\ projects = projLast.before

\* A listed project was deleted and the re-fetched list holds the others.
C5_Witness ==
    /\ projLast.op = "deleteProject"
    /\ projLast.returned
    /\ projError = NoError
    /\ hasProject(projLast.before, projLast.path)
    /\ ~hasProject(projects, projLast.path)
    /\ Len(projects) >= 1
    /\ Len(projects) = Len(projLast.before) - 1

\* C5 (as stated): after deleteProject(p) returned true the list does not
\* contain p; after a failed deletion it returned false, the error is
\* recorded and the list is as it was; isLoading is false.
C5_ListLacksDeleted ==
    projLast.op = "deleteProject" =>
        /\ ~projIsLoading
        /\ projLast.returned => ~hasProject(projects, projLast.path)
        /\ ~projLast.returned =>
              /\ projError # NoError
              /\ projects = projLast.before

----------------------------------------------------------------------------
(* Auto-save *)

\* Nothing is pending: no auto-save timeout and no IPC call in flight.
quiescent == timer = Null /\ tasks = << >>

\* C8: when the caption of the current file was modified (typed, cleared or
\* AI-generated), the user did nothing after that, no write failed, and the
\* debounce timeout and every call in flight have run, the sidecar of the
\* file that was current holds the text of that last modification and
\* captionModified is false.
C8_AutoSaved ==
    (lastEdit # Null /\ quiescent /\ error = NoError) =>
        /\ ~captionModified
        /\ getCaptionPath(lastEdit.file.path) \in DOMAIN wd
        /\ wd[getCaptionPath(lastEdit.file.path)] = lastEdit.text

----------------------------------------------------------------------------
(* Loading a directory *)

mediaPathsIn(dir) == {p \in DOMAIN dir : fileTypeOf(p) \in {"image", "video"}}

\* C6: when selectSourceDirectory has succeeded, mediaFiles holds exactly
\* the records listed from the duplicated working directory, sorted by name
\* and each path once, and the set of their paths is the set of paths of the
\* media files of the selected source directory.
C6_DuplicateThenList ==
    (lastOp.op = "loaded" /\ lastOp.by = "selectSourceDirectory") =>
        /\ lastOp.dir = SourceDirs[lastOp.src]
        /\ Range(mediaFiles) = Range(listDirectoryFiles(lastOp.dir))
        /\ {mediaFiles[i].path : i \in 1..Len(mediaFiles)}
              = mediaPathsIn(SourceDirs[lastOp.src])
        /\ Len(mediaFiles) = Cardinality(mediaPathsIn(SourceDirs[lastOp.src]))
        /\ \A i \in 1..Len(mediaFiles) :
              \A j \in 1..Len(mediaFiles) :
                  i < j => NameLess(mediaFiles[i].name, mediaFiles[j].name)

\* The source with a video, images, a sidecar and another file was loaded.
C6_Witness ==
    /\ lastOp.op = "loaded"
    /\ lastOp.by = "selectSourceDirectory"
    /\ lastOp.src = "big"
    /\ NOTES_MD \in DOMAIN wd
    /\ A_TXT \in DOMAIN wd
    /\ Len(mediaFiles) = BatchSize + 1
    /\ mediaFiles[1].path = A_MP4
    /\ mediaFiles[2].path = A_PNG
    /\ mediaFiles[2].has_caption

----------------------------------------------------------------------------
(* Thumbnails *)

\* Every generateThumbnails call has returned, having asked for the
\* thumbnail of every listed file, and every file whose request succeeds
\* holds its thumbnail.
thumbnailsComplete ==
    /\ \A r \in 1..Len(runs) :
          /\ runs[r].returned
          /\ runs[r].out = {}
          /\ runs[r].asked = idsOf(mediaFiles)
    /\ \A i \in 1..Len(mediaFiles) :
          mediaFiles[i].thumbnail =
              get_media_thumbnail(wd, mediaFiles[i].path).thumbnail

\* C9: for every listed directory and every set of its files whose
\* thumbnail request fails, generateThumbnails terminates, having issued a
\* request for every file of the list, with the thumbnail of every file
\* whose request succeeded stored in mediaFiles.
C9_ThumbnailFailuresIsolated == <>[]thumbnailsComplete

\* A list longer than one batch, with a failure in the first batch and a
\* success in the second.
C9_Witness ==
    /\ thumbnailsComplete
    /\ Len(mediaFiles) > BatchSize
    /\ \E i \in 1..BatchSize : mediaFiles[i].thumbnail = NoThumb
    /\ \E i \in 1..BatchSize : mediaFiles[i].thumbnail # NoThumb
    /\ mediaFiles[BatchSize + 1].thumbnail = Thumb(mediaFiles[BatchSize + 1].path)

RECURSIVE outstanding(_)
outstanding(rs) ==
    IF rs = << >> THEN 0 ELSE Cardinality(Head(rs).out) + outstanding(Tail(rs))

\* The batch a generateThumbnails call issued last.
currentBatch(run) ==
    IF run.next = 1 THEN {}
    ELSE idsOf(slice(run.files, run.next - BatchSize, BatchSize))

\* C10 (amended): of every single generateThumbnails call at most 5
\* requests are outstanding, and all of them belong to the batch it issued
\* last: no request of batch k+1 is issued before every request of batch k
\* has settled.  (The calls of successive directory loads run side by side.)
C10_BatchesPerCall ==
    \A r \in 1..Len(runs) :
        /\ Cardinality(runs[r].out) <= BatchSize
        /\ runs[r].out \subseteq currentBatch(runs[r])

\* Two calls are under way, one of them in its second batch.
C10_Witness ==
    \E r1 \in 1..Len(runs) :
        \E r2 \in 1..Len(runs) :
            /\ r1 # r2
            /\ runs[r1].next > 1 + BatchSize
            /\ runs[r1].out # {}
            /\ Cardinality(runs[r2].out) = BatchSize

\* C10 (as stated): at every moment at most 5 thumbnail requests issued by
\* generateThumbnails are outstanding, after any sequence of directory
\* loads, and every outstanding request belongs to the last batch of its call.
C10_FiveOutstanding ==
    /\ outstanding(runs) <= BatchSize
    /\ \A r \in 1..Len(runs) : runs[r].out \subseteq currentBatch(runs[r])

----------------------------------------------------------------------------
(* Export *)

\* C7 (amended): an export that has succeeded produced a full copy of the
\* working directory as it is when export_directory runs, after the
\* destination was chosen: every file then present (media and sidecars),
\* with its content, and nothing else, whatever was exported before.
C7_ExportAtCopy ==
    lastOp.op = "exported" =>
        /\ archive.zip = lastOp.asZip
        /\ DOMAIN archive.files = DOMAIN wd
        /\ \A p \in DOMAIN wd : archive.files[p] = wd[p]

\* An archive was written that holds a sidecar saved by the auto-save.
C7_Witness ==
    /\ lastOp.op = "exported"
    /\ lastOp.asZip
    /\ archive.zip
    /\ \E p \in DOMAIN archive.files :
          /\ fileTypeOf(p) = "other"
          /\ archive.files[p] \in TypedTexts \ {EmptyText}
    /\ \E p \in DOMAIN archive.files : fileTypeOf(p) = "video"

\* C7 (as stated): the archive of a successful export as ZIP holds every
\* file that was in the working directory at the moment the export was
\* started.
C7_ExportAtStart ==
    (lastOp.op = "exported" /\ lastOp.asZip) =>
        DOMAIN lastOp.atStart \subseteq DOMAIN archive.files

----------------------------------------------------------------------------
(* The media file list *)

flagsOf(files) ==
    [i \in 1..Len(files) |->
        [id |-> files[i].id, selected |-> files[i].selected,
         has_caption |-> files[i].has_caption]]

appliesThumbnail(op) == op \in {"thumbnail", "appThumbnail", "fileUpdateThumbnail"}

\* C11: a step that applies a thumbnail result to the list (of
\* generateThumbnails, of the App's effect or of handleFileUpdate) leaves
\* the selected and has_caption flags of every file, the one that receives
\* the thumbnail included, as the toggles and caption writes before it set
\* them.
C11_FlagsKept ==
    [][appliesThumbnail(lastOp'.op) => flagsOf(mediaFiles') = flagsOf(mediaFiles)]_vars

----------------------------------------------------------------------------
(* Media edits *)

\* C12: every trim_video is invoked after its reset_trim_progress, with the
\* counter and the shown progress at 0, and a progress value polled while a
\* trim runs is never the final value (100 or -1) that a trim started
\* before it left in the counter.
C12_ProgressReset ==
    /\ edLast.op = "trimInvoked" =>
          /\ edLast.counter = 0
          /\ progressPercent = 0
          /\ trimIsProcessing
    /\ (edLast.op = "poll" /\ edLast.during # 0) =>
          ~(/\ edLast.value \in {ProgressDone, ProgressFailed}
            /\ edLast.by # 0
            /\ edLast.by < edLast.during)

\* ---- C13 ----
editFailed(last) == last.op \in {"trimFailed", "cropFailed"}

\* The editor whose command failed is not processing.
notProcessing(last, trimP, cropP) ==
    IF last.op = "trimFailed" THEN ~trimP ELSE ~cropP

\* C13: a step in which trim_video, crop_video or save_cropped_image fails
\* shows a failure toast, does not call onSave (the file list, the current
\* file and App's calls are as before), invokes no backend command (the
\* failed call is gone and no call was added) and leaves the editor not
\* processing.
C13_FailureNoRetry ==
    [][(edLast' # edLast /\ editFailed(edLast')) =>
          /\ edLast'.command \in {"trim_video", "crop_video", "save_cropped_image"}
          /\ edLast'.toast # ""
          /\ tasks' = tasks /\ mediaFiles' = mediaFiles /\ currentFile' = currentFile
          /\ Len(edits') = Len(edits) - 1
          /\ \A k \in 1..Len(edits') : \E j \in 1..Len(edits) : edits'[k] = edits[j]
          /\ notProcessing(edLast', trimIsProcessing', cropIsProcessing')]_vars

\* A crop of the video has failed; the dialog is open with Save enabled.
C13_Witness ==
    /\ edLast.op = "cropFailed"
    /\ edLast.command = "crop_video"
    /\ cropOpen
    /\ ~cropIsProcessing
    /\ edits = << >>

\* ---- C14 ----
\* C14: every caption generation, single-file or batch, succeeding or
\* failing, with or without a failed frame extraction, is followed by
\* isProcessing = FALSE; once the user starts no further generation,
\* isProcessing stays FALSE.
C14_ProcessingEnds == <>[](~isProcessing)

\* The caption request of a video whose frame extraction failed has failed
\* too, and the Generate buttons are enabled.
C14_Witness ==
    /\ lastOp.op = "generated"
    /\ ~lastOp.ok
    /\ lastOp.frame = "failed"
    /\ ~isProcessing
    /\ tasks = << >>

\* ---- C16 ----
\* The rule of the claim: Gemini exactly when (the file is a video and
\* useGeminiForVideos is enabled) or preferredProvider is 'gemini'.
routeOf(s, file) ==
    IF (isVideoFile(file) /\ s.useGeminiForVideos) \/ s.preferredProvider = "gemini"
    THEN "gemini" ELSE "openai"

\* C16: every caption request in flight, single-file or batch, goes to the
\* provider that the rule gives for each of its files under the settings in
\* force when it was started.
C16_ProviderRouting ==
    \A k \in 1..Len(tasks) :
        /\ tasks[k].kind = "generate" =>
              tasks[k].provider = routeOf(tasks[k].settings, tasks[k].file)
        /\ tasks[k].kind = "batch" =>
              \A i \in 1..Len(tasks[k].paths) :
                  tasks[k].provider =
                      routeOf(tasks[k].settings, findByPath(tasks[k].all, tasks[k].paths[i]))

\* ---- C15 ----
\* A caption sidecar of the directory beside which no media file is left.
orphanSidecars(dir) ==
    {p \in DOMAIN dir : /\ fileTypeOf(p) = "other"
                        /\ ~\E q \in DOMAIN dir : /\ fileTypeOf(q) \in {"image", "video"}
                                                  /\ sidecarOf(q) = p}

\* C15: a successful removal takes the file out of mediaFiles, a failed one
\* leaves mediaFiles as it was and records the error, and at no later time
\* does the working directory hold the caption sidecar of a removed file.
C15_RemoveFileAndCaption ==
    [][/\ lastOp'.op = "removed" =>
              IF lastOp'.ok
              THEN ~hasId(mediaFiles', lastOp'.file.id)
              ELSE mediaFiles' = mediaFiles /\ error' # NoError
       /\ orphanSidecars(wd') = {}]_vars

\* ---- C17 ----
\* C17: when handleFileSelect or handleNavigate (button or shortcut) is
\* called while captionModified is true, what it starts is a write for the
\* file being left that carries the text shown in the editor at that moment;
\* the new file's caption is read only when that write has answered.
C17_SwitchSavesShownText ==
    (lastOp.op \in {"handleFileSelect", "handleNavigate"} /\ lastOp.made = "writing") =>
        /\ tasks # << >>
        /\ Last(tasks).kind = "selectWrite"
        /\ Last(tasks).cf = currentFile
        /\ Last(tasks).cap = lastOp.was
        /\ Last(tasks).file = lastOp.file

\* ---- C18 ----
\* C18: a sidecar never holds the caption generated for a file it does not
\* belong to.
C18_GeneratedCaptionStays ==
    \A p \in DOMAIN wd : \A i \in 1..Len(mediaFiles) :
        wd[p] = GenText(mediaFiles[i].path) => p = getCaptionPath(mediaFiles[i].path)

\* ---- C19 ----
\* C19: when no caption read is in flight and the caption is not marked
\* modified, the editor shows the sidecar content of the current file, or
\* the empty text when it has none.  Checked where it is least demanding:
\* with no call at all in flight, no auto-save pending and no failure
\* recorded.
C19_ShownIsSidecar ==
    (currentFile # Null /\ tasks = << >> /\ timer = Null /\ error = NoError
        /\ ~captionModified) =>
        caption = readCaption(wd, currentFile)

\* ---- C20 ----
\* The writeCaption calls in flight: the debounced auto-save, the save
\* before a switch of files, the saving of a batch result.
isWrite(t) == t.kind \in {"save", "selectWrite", "batchWrite"}

\* The media file a writeCaption call in flight writes the sidecar of.
writtenFile(t) == IF t.kind = "selectWrite" THEN t.cf ELSE t.file

\* C20: no two writeCaption calls for the same media file are in flight at
\* once.
C20_WritesSerialized ==
    \A j, k \in 1..Len(tasks) :
        (j # k /\ isWrite(tasks[j]) /\ isWrite(tasks[k])) =>
            writtenFile(tasks[j]).id # writtenFile(tasks[k]).id

\* ---- C21 ----
\* C21: currentFile is null or has the id of an entry of mediaFiles.
C21_CurrentFileListed ==
    currentFile = Null \/ hasId(mediaFiles, currentFile.id)

\* ---- C22 ----
\* C22: when every updateSingleSetting call issued has completed and none
\* has failed, the record saved on disk equals the in-memory settings, which
\* hold for every key the value of the last update issued for it.
C22_LastSavedWins ==
    (settingsCalls = << >> /\ ~settingsStore.failed) => settingsStore.saved = settings

\* ---- C23 ----
\* The flag of every listed file says whether its sidecar exists.
flagsMatchDisk(files, dir) ==
    \A i \in 1..Len(files) :
        files[i].has_caption <=> (sidecarOf(files[i].path) \in DOMAIN dir)

\* C23: has_caption of every file of mediaFiles is true exactly when the
\* sidecar with the file's basename exists; a successful writeCaption flags
\* its file, a failed one leaves mediaFiles unchanged and records the error.
C23_FlagMatchesSidecar ==
    [][/\ lastOp'.op = "writeCaption" =>
              IF lastOp'.ok
              THEN \A i \in 1..Len(mediaFiles') :
                      mediaFiles'[i].id = lastOp'.file.id => mediaFiles'[i].has_caption
              ELSE mediaFiles' = mediaFiles /\ error' # NoError
       /\ flagsMatchDisk(mediaFiles', wd')]_vars

\* ---- C24 ----
\* The captions of the listed files other than the one written, as
\* readCaption returns them.
otherCaptions(files, dir, written, sameName) ==
    [i \in {j \in 1..Len(files) :
                /\ files[j].id # written.id
                /\ sameName \/ sidecarOf(files[j].path) # sidecarOf(written.path)} |->
        readCaption(dir, files[i])]

\* C24 as stated: a step in which writeCaption(f, c) writes f's sidecar
\* leaves readCaption(g) as it was for every other listed media file g.
C24_OnlyOwnSidecar ==
    [][(lastOp'.op = "writeCaption" /\ lastOp'.ok) =>
          otherCaptions(mediaFiles, wd', lastOp'.file, TRUE)
              = otherCaptions(mediaFiles, wd, lastOp'.file, TRUE)]_vars

\* C24: a step in which writeCaption(f, c) writes f's sidecar leaves
\* readCaption(g) as it was for every other listed media file g whose
\* basename differs from f's, no media file is overwritten, and the sidecar
\* of f holds c.
C24_OnlyOwnBasename ==
    [][(lastOp'.op = "writeCaption" /\ lastOp'.ok) =>
          /\ otherCaptions(mediaFiles, wd', lastOp'.file, FALSE)
                = otherCaptions(mediaFiles, wd, lastOp'.file, FALSE)
          /\ \A p \in DOMAIN wd : fileTypeOf(p) \in {"image", "video"} => wd'[p] = wd[p]
          /\ readCaption(wd', lastOp'.file) = lastOp'.content]_vars

\* A caption was written for a.mp4 while a.png and b.png are listed, b.png
\* with a caption of its own.
C24_Witness ==
    /\ lastOp.op = "writeCaption"
    /\ lastOp.ok
    /\ lastOp.file.path = A_MP4
    /\ lastOp.content # EmptyText
    /\ lastOp.prev # lastOp.content
    /\ B_TXT \in DOMAIN wd
    /\ Len(mediaFiles) = 3

----------------------------------------------------------------------------
\* C25: at most one trim_video invocation started from the trim editor is in
\* flight at any time: while a trim runs, Save cannot start another one,
\* also after the dialog was cancelled and reopened and after a polled -1.
C25_OneTrimInFlight == Cardinality(trimsRunning) <= 1

----------------------------------------------------------------------------
\* C26: after a directory has been loaded and with no further user action,
\* the App's thumbnail-loading effect asks for finitely many thumbnails and
\* then stops, also when the thumbnail of some file is never generated.
C26_EffectQuiesces == <>[](~loadingThumbnails /\ thumbLoad = {})

----------------------------------------------------------------------------
\* C27: in single-file generation a video frame is extracted exactly when
\* the OpenAI-compatible provider will caption a video: every request of
\* handleGenerateCurrentCaption in flight has asked for a frame if and only
\* if its file is a video and its settings route the request to OpenAI.
C27_FrameIffOpenAIVideo ==
    \A k \in 1..Len(tasks) :
        tasks[k].kind \in {"extractFrame", "generate"} =>
            ((tasks[k].kind = "extractFrame" \/ tasks[k].frame # "none")
                <=> (/\ isVideoFile(tasks[k].file)
                     /\ preferredProviderFor(tasks[k].settings, TRUE) = "openai"))

----------------------------------------------------------------------------
\* The file that follows (or precedes) the file at index i of a list of n
\* files, the last being followed by the first.
wrapIndex(i, n, direction) ==
    IF direction = "next"
    THEN IF i = n THEN 1 ELSE i + 1
    ELSE IF i = 1 THEN n ELSE i - 1

\* 'next' followed by 'prev', and 'prev' followed by 'next', on files from cur.
roundTrips(files, cur) ==
    \A d \in {"next", "prev"} :
        LET back == IF d = "next" THEN "prev" ELSE "next" IN
        files[newIndex(files, files[newIndex(files, cur, d)], back)].id = cur.id

\* C28: handleNavigate makes current a file of mediaFiles at a valid index,
\* 'next' from the last file being the first and 'prev' from the first the
\* last; from a file of the list 'next' then 'prev' (and 'prev' then 'next')
\* lead back to it; with no current file or an empty list nothing changes.
C28_NavigateWraps ==
    [][(lastOp'.op = "handleNavigate" /\ clicks' = clicks + 1) =>
          IF currentFile = Null \/ Len(mediaFiles) = 0
          THEN currentFile' = currentFile /\ caption' = caption
          ELSE /\ hasId(mediaFiles, lastOp'.file.id)
               /\ hasId(mediaFiles, currentFile.id) =>
                     /\ findIndex(mediaFiles, lastOp'.file.id)
                            = wrapIndex(findIndex(mediaFiles, currentFile.id),
                                        Len(mediaFiles), lastOp'.direction)
                     /\ roundTrips(mediaFiles, currentFile)
               /\ ~captionModified => currentFile' = lastOp'.file]_vars

====
